---------------------------- MODULE Spec2Model ----------------------------
(***************************************************************************)
(* Model of the command-line utilities of power-bi-agentic-development:    *)
(*   skills/tabular-editor-config/scripts/validate_config.py               *)
(*   skills/tabular-editor-config/scripts/validate_tmuo.py                 *)
(*   skills/bpa-rules/scripts/validate_rules.py                            *)
(*   skills/c-sharp-macros/scripts/validate_macros.py                      *)
(*   scripts/bpa_rules_audit.py                                            *)
(*                                                                         *)
(* Every tool is a single sequential process: it is started in an          *)
(* environment (command line, files, installed libraries, network), runs   *)
(* to completion and leaves a result (exit code, returned error list,      *)
(* printed messages).  env is the environment, result what the run has     *)
(* produced, pc the position of the process.                               *)
(*                                                                         *)
(* Python strings on which the code computes (lower, startswith, endswith, *)
(* substring tests) are sequences of one-character strings; strings that   *)
(* are only compared for equality are TLA+ strings.  A JSON object is a    *)
(* function from its keys to its values.                                   *)
(***************************************************************************)
EXTENDS Integers, Sequences, FiniteSets, TLC

VARIABLES pc, env, result

vars == <<pc, env, result>>

(***************************************************************************)
(* Bounds of the model.                                                    *)
(***************************************************************************)
\* largest number of violations the JSON Schema validator reports for a config file
MaxViolations == 1

\* largest number of elements of a rules array
MaxRules == 2

\* largest number of elements of an Actions array
MaxMacros == 2

\* longest list of external rule URLs in a model
MaxUrls == 2

\* largest number of lines of a content given to extract_annotation_value
MaxLines == 3

\* largest number of successive calls of add_macro and create_macros_json
MaxCalls == 3

\* largest number of macros in an existing macros document
MaxActions == 2

\* largest number of bytes of a file given to fix_line_endings
MaxBytes == 4

(***************************************************************************)
(* Python string operations on character sequences.                        *)
(***************************************************************************)
UpperChars == <<"A","B","C","D","E","F","G","H","I","J","K","L","M",
                "N","O","P","Q","R","S","T","U","V","W","X","Y","Z">>

LowerChars == <<"a","b","c","d","e","f","g","h","i","j","k","l","m",
                "n","o","p","q","r","s","t","u","v","w","x","y","z">>

\* str.lower() on one character
LowerChar(c) ==
    IF \E i \in 1..Len(UpperChars) : UpperChars[i] = c
    THEN LowerChars[CHOOSE i \in 1..Len(UpperChars) : UpperChars[i] = c]
    ELSE c

\* str.lower()
Lower(s) == [i \in 1..Len(s) |-> LowerChar(s[i])]

\* s.startswith(p)
StartsWith(s, p) ==
    /\ Len(p) <= Len(s)
    /\ SubSeq(s, 1, Len(p)) = p

\* s.endswith(p)
EndsWith(s, p) ==
    /\ Len(p) <= Len(s)
    /\ SubSeq(s, Len(s) - Len(p) + 1, Len(s)) = p

\* p in s   (substring test)
Contains(s, p) ==
    \E i \in 1..(Len(s) - Len(p) + 1) : SubSeq(s, i, i + Len(p) - 1) = p

\* "x in seq" for a Python list
InSeq(x, seq) == \E i \in 1..Len(seq) : seq[i] = x

\* index of the first occurrence of x in seq (list.index)
IndexOf(x, seq) == CHOOSE i \in 1..Len(seq) : seq[i] = x /\ \A j \in 1..(i-1) : seq[j] # x

\* [a for a in seq if a != x]
RECURSIVE Without(_, _)
Without(seq, x) ==
    IF seq = <<>> THEN <<>>
    ELSE IF Head(seq) = x THEN Without(Tail(seq), x)
    ELSE <<Head(seq)>> \o Without(Tail(seq), x)

\* dict.get(key, default)
Get(d, key, default) == IF key \in DOMAIN d THEN d[key] ELSE default

(***************************************************************************)
(* Command-line words.                                                     *)
(***************************************************************************)
FLAG_SCHEMA_ONLY == <<"-","-","s","c","h","e","m","a","-","o","n","l","y">>
FLAG_TYPE == <<"-","-","t","y","p","e">>
FLAG_STDIN == <<"-","-","s","t","d","i","n">>
FLAG_FIX == <<"-","-","f","i","x">>
DASHDASH == <<"-","-">>

(***************************************************************************)
(* Printed output.  A printed line is [tag, msg]: tag is "ERROR" for a     *)
(* line printed as "[ERROR] ...", "WARN" for "[WARN] ...", "FIXED" for     *)
(* "[FIXED] ..." and "plain" for the untagged lines ("Error: ...",         *)
(* usage, summary).                                                        *)
(***************************************************************************)
Line(tag, msg) == [tag |-> tag, msg |-> msg]

\* the lines "  [ERROR] {error}" printed for each returned error
RECURSIVE ErrorLines(_)
ErrorLines(errors) ==
    IF errors = <<>> THEN <<>>
    ELSE <<Line("ERROR", Head(errors).kind)>> \o ErrorLines(Tail(errors))

\* None, for an optional string
NoneStr == <<>>

\* what a run leaves behind.  exit: the exit code, -1 while the process has not
\* exited; errors: the error list the validation function returned; printed: the
\* lines printed; validated: the run reached the validation function;
\* config_type: the config type validate_config.py settled on; crashed: the run
\* ended by an uncaught exception (the interpreter then exits with code 1)
NoResult == [exit |-> -1, errors |-> <<>>, printed |-> <<>>, validated |-> FALSE,
             config_type |-> NoneStr, crashed |-> FALSE]

Exit(code, errors, printed, validated) ==
    [exit |-> code, errors |-> errors, printed |-> printed, validated |-> validated,
     config_type |-> NoneStr, crashed |-> FALSE]

\* an uncaught exception: traceback on stderr, exit code 1
Crash(printed) ==
    [exit |-> 1, errors |-> <<>>, printed |-> printed, validated |-> TRUE,
     config_type |-> NoneStr, crashed |-> TRUE]

\* the schema validator's findings on a config document: one per violation
RECURSIVE SchemaErrorList(_)
SchemaErrorList(n) ==
    IF n = 0 THEN <<>>
    ELSE SchemaErrorList(n - 1) \o <<[kind |-> "schema", idx |-> n - 1]>>

(***************************************************************************)
(* validate_config.py                                                      *)
(***************************************************************************)
T_preferences == <<"p","r","e","f","e","r","e","n","c","e","s">>
T_uipreferences == <<"u","i","p","r","e","f","e","r","e","n","c","e","s">>
T_layouts == <<"l","a","y","o","u","t","s">>
T_recentfiles == <<"r","e","c","e","n","t","f","i","l","e","s">>
T_recentservers == <<"r","e","c","e","n","t","s","e","r","v","e","r","s">>
T_tmuo == <<"t","m","u","o">>

\* the keys of CONFIG_TYPES
CONFIG_TYPES == {T_preferences, T_uipreferences, T_layouts, T_recentfiles,
                 T_recentservers, T_tmuo}

\* FILE_TYPE_MAPPING, in the insertion order in which the dict is iterated
FILE_TYPE_MAPPING ==
    << [pattern |-> <<"p","r","e","f","e","r","e","n","c","e","s",".","j","s","o","n">>,
        config_type |-> T_preferences],
       [pattern |-> <<"u","i","p","r","e","f","e","r","e","n","c","e","s",".","j","s","o","n">>,
        config_type |-> T_uipreferences],
       [pattern |-> <<"l","a","y","o","u","t","s",".","j","s","o","n">>,
        config_type |-> T_layouts],
       [pattern |-> <<"r","e","c","e","n","t","f","i","l","e","s",".","j","s","o","n">>,
        config_type |-> T_recentfiles],
       [pattern |-> <<"r","e","c","e","n","t","s","e","r","v","e","r","s",".","j","s","o","n">>,
        config_type |-> T_recentservers] >>

\* the loop "for pattern, config_type in FILE_TYPE_MAPPING.items()" from entry i on
RECURSIVE FirstMapping(_, _)
FirstMapping(lower_name, i) ==
    IF i > Len(FILE_TYPE_MAPPING) THEN NoneStr
    ELSE IF EndsWith(lower_name, FILE_TYPE_MAPPING[i].pattern)
         THEN FILE_TYPE_MAPPING[i].config_type
         ELSE FirstMapping(lower_name, i + 1)

\* detect_config_type(filename)
detect_config_type(filename) ==
    LET lower_name == Lower(filename)
    IN  IF EndsWith(lower_name, <<".","t","m","u","o">>) THEN T_tmuo
        ELSE FirstMapping(lower_name, 1)

\* load_schema(config_type): the schema document, or None; and what it prints
config_load_schema(e, config_type) ==
    IF config_type \notin CONFIG_TYPES
    THEN [schema |-> FALSE, printed |-> <<Line("ERROR", "Unknown config type")>>]
    ELSE IF e.schema = "missing"
    THEN [schema |-> FALSE, printed |-> <<Line("WARN", "Schema file not found")>>]
    ELSE IF e.schema = "invalid"
    THEN [schema |-> FALSE, printed |-> <<Line("WARN", "Invalid schema JSON")>>]
    ELSE [schema |-> TRUE, printed |-> <<>>]

\* validate_with_schema(data, schema): returned errors and printed lines
config_validate_with_schema(e) ==
    IF ~e.hasJsonschema
    THEN [errors |-> <<>>, printed |-> <<Line("WARN", "jsonschema not installed")>>]
    ELSE [errors |-> SchemaErrorList(e.violations), printed |-> <<>>]

\* the string s contains "_" or "-"
HasUserMark(s) == \E i \in 1..Len(s) : s[i] \in {"_", "-"}

\* the keys check_for_plaintext takes for credentials: key.lower() is "password"
\* or "accountkey"
IsCredentialKey(key) == key \in {"Password", "password", "AccountKey", "accountkey"}

\* the keys of d in the order in which the model iterates a dict
KeyOrder == <<"WorkspaceDatabase", "UseWorkspace", "WorkspaceConnection", "Password",
              "AccountKey", "TargetConnectionString", "DeployPartitions",
              "DeployDataSources", "Deployment">>

\* check_for_plaintext(obj) over the keys from position k of KeyOrder on: a warning
\* for every credential key with a non-empty string, the nested object Deployment
\* searched in turn
RECURSIVE PlainTextFrom(_, _)
PlainTextFrom(d, k) ==
    IF k > Len(KeyOrder) THEN <<>>
    ELSE LET key == KeyOrder[k]
         IN  (IF key \notin DOMAIN d THEN <<>>
              ELSE IF IsCredentialKey(key)
                   THEN (IF d[key] # <<>>
                         THEN <<Line("WARN", "plain-text credential")>> ELSE <<>>)
              ELSE IF key = "Deployment" THEN PlainTextFrom(d[key], 1)
              ELSE <<>>)
             \o PlainTextFrom(d, k + 1)

PlainTextWarnings(d) == PlainTextFrom(d, 1)

\* validate_tmuo_extras(data) of validate_config.py
config_validate_tmuo_extras(d) ==
    LET ws_db == Get(d, "WorkspaceDatabase", <<>>)
        w1 == IF ws_db # <<>> /\ ~HasUserMark(ws_db)
              THEN <<Line("WARN", "WorkspaceDatabase name")>> ELSE <<>>
        w2 == PlainTextWarnings(d)
        deployment == Get(d, "Deployment", <<>>)
        to_powerbi == /\ deployment # <<>>
                      /\ Contains(Lower(Get(deployment, "TargetConnectionString", <<>>)),
                                  <<"p","o","w","e","r","b","i",":","/","/">>)
        w3 == IF to_powerbi /\ Get(deployment, "DeployPartitions", FALSE)
              THEN <<Line("WARN", "DeployPartitions=true")>> ELSE <<>>
        errs == IF Get(d, "UseWorkspace", FALSE) /\ Get(d, "WorkspaceConnection", <<>>) = <<>>
                THEN <<[kind |-> "UseWorkspace", idx |-> 0]>> ELSE <<>>
    IN  [errors |-> errs, printed |-> w1 \o w2 \o w3]

\* validate_preferences_extras(data)
validate_preferences_extras(d) ==
    LET errs == IF Get(d, "ProxyType", "None") = "Manual" /\ Get(d, "ProxyAddress", <<>>) = <<>>
                THEN <<[kind |-> "ProxyType", idx |-> 0]>> ELSE <<>>
        w == IF Get(d, "BackupOnSave", FALSE) /\ Get(d, "SaveBackupLocation", <<>>) = <<>>
             THEN <<Line("WARN", "BackupOnSave")>> ELSE <<>>
    IN  [errors |-> errs, printed |-> w]

NoFindings == [errors |-> <<>>, printed |-> <<>>]

\* validate_config_file(data, config_type, schema, schema_only)
validate_config_file(e, config_type, schema, schema_only) ==
    LET s == IF schema THEN config_validate_with_schema(e) ELSE NoFindings
        x == IF config_type = T_tmuo /\ e.data.kind = "dict"
                 THEN config_validate_tmuo_extras(e.data.fields)
             ELSE IF config_type = T_preferences /\ e.data.kind = "dict"
                 THEN validate_preferences_extras(e.data.fields)
             ELSE NoFindings
    IN  IF schema /\ schema_only
        THEN s
        ELSE [errors |-> s.errors \o x.errors, printed |-> s.printed \o x.printed]

\* the tail of main() of validate_config.py once the config type is known
config_main_validate(e, config_type, schema_only) ==
    IF ~e.jsonValid
    THEN Exit(1, <<>>, <<Line("plain", "Error: Invalid JSON")>>, FALSE)
    ELSE LET ls == config_load_schema(e, config_type)
             r == validate_config_file(e, config_type, ls.schema, schema_only)
             out == ls.printed \o r.printed
         IN  [ (IF r.errors # <<>>
                THEN Exit(1, r.errors, out \o ErrorLines(r.errors), TRUE)
                ELSE Exit(0, r.errors, out \o <<Line("plain", "Config file is valid")>>, TRUE))
               EXCEPT !.config_type = config_type ]

\* main() of validate_config.py; e.argv is sys.argv[1:]
validate_config_main(e) ==
    IF Len(e.argv) < 1
    THEN Exit(1, <<>>, <<Line("plain", "Usage")>>, FALSE)
    ELSE
    LET schema_only == InSeq(FLAG_SCHEMA_ONLY, e.argv)
        args0 == Without(e.argv, FLAG_SCHEMA_ONLY)
        has_type == InSeq(FLAG_TYPE, args0)
        type_idx == IF has_type THEN IndexOf(FLAG_TYPE, args0) ELSE 0
    IN  IF has_type /\ ~(type_idx + 1 <= Len(args0))
        THEN Exit(1, <<>>, <<Line("plain", "Error: --type requires a value")>>, FALSE)
        ELSE
        LET given_type == IF has_type THEN Lower(args0[type_idx + 1]) ELSE NoneStr
            args == IF has_type
                    THEN SubSeq(args0, 1, type_idx - 1) \o SubSeq(args0, type_idx + 2, Len(args0))
                    ELSE args0
        IN  IF args = <<>>
            THEN Exit(1, <<>>, <<Line("plain", "Error: No input file specified")>>, FALSE)
            ELSE IF args[1] = FLAG_STDIN
            THEN IF given_type = NoneStr
                 THEN Exit(1, <<>>, <<Line("plain", "Error: --type is required")>>, FALSE)
                 ELSE config_main_validate(e, given_type, schema_only)
            ELSE IF ~e.fileExists
            THEN Exit(1, <<>>, <<Line("plain", "Error: File not found")>>, FALSE)
            ELSE LET config_type == IF given_type = NoneStr
                                    THEN detect_config_type(args[1])
                                    ELSE given_type
                 IN  IF config_type = NoneStr
                     THEN Exit(1, <<>>, <<Line("plain", "Error: Could not detect config type")>>, FALSE)
                     ELSE config_main_validate(e, config_type, schema_only)

(***************************************************************************)
(* Environments of validate_config.py.                                     *)
(***************************************************************************)
F_Preferences == <<"P","r","e","f","e","r","e","n","c","e","s",".","j","s","o","n">>
F_UiPreferences == <<"U","i","P","r","e","f","e","r","e","n","c","e","s",".","j","s","o","n">>
F_uipreferences == <<"u","i","p","r","e","f","e","r","e","n","c","e","s",".","j","s","o","n">>
F_Layouts == <<"L","a","y","o","u","t","s",".","j","s","o","n">>
F_LAYOUTS == <<"L","A","Y","O","U","T","S",".","J","S","O","N">>
F_RecentFiles == <<"R","e","c","e","n","t","F","i","l","e","s",".","j","s","o","n">>
F_RecentServers == <<"R","e","c","e","n","t","S","e","r","v","e","r","s",".","j","s","o","n">>
F_ModelTmuo == <<"M","o","d","e","l",".","U","s","r",".","t","m","u","o">>
F_UpperTmuo == <<"M",".","T","M","U","O">>
F_Notes == <<"n","o","t","e","s",".","j","s","o","n">>

ConfigFileNames == {F_Preferences, F_UiPreferences, F_uipreferences, F_Layouts, F_LAYOUTS,
                    F_RecentFiles, F_RecentServers, F_ModelTmuo, F_UpperTmuo, F_Notes}

\* values given after --type
TypeArgs == {T_preferences, <<"T","M","U","O">>, <<"b","o","g","u","s">>}

ConfigArgvs ==
    {<<>>, <<FLAG_SCHEMA_ONLY>>, <<FLAG_STDIN>>, <<FLAG_TYPE>>}
    \cup {<<f>> : f \in ConfigFileNames}
    \cup {<<FLAG_SCHEMA_ONLY, f>> : f \in ConfigFileNames}
    \cup {<<f, FLAG_TYPE>> : f \in ConfigFileNames}
    \cup {<<FLAG_TYPE, t, f>> : t \in TypeArgs, f \in {F_Preferences, F_ModelTmuo, F_Notes}}
    \cup {<<f, FLAG_SCHEMA_ONLY, FLAG_TYPE, t>> : t \in TypeArgs, f \in {F_Preferences, F_Notes}}
    \cup {<<FLAG_STDIN, FLAG_TYPE, t>> : t \in TypeArgs}
    \cup {<<FLAG_TYPE, t, FLAG_STDIN>> : t \in TypeArgs}

JDict(fields) == [kind |-> "dict", fields |-> fields]
JList == [kind |-> "list", fields |-> <<>>]

\* parsed documents: preferences-like and tmuo-like objects, and an array
ConfigDocs ==
    { JDict(<<>>),
      JList,
      JDict([ProxyType |-> "Manual"]),
      JDict([ProxyType |-> "Manual", ProxyAddress |-> <<"h">>]),
      JDict([BackupOnSave |-> TRUE]),
      JDict([UseWorkspace |-> TRUE]),
      JDict([UseWorkspace |-> TRUE, WorkspaceConnection |-> <<"s">>, WorkspaceDatabase |-> <<"d","b">>]),
      JDict([WorkspaceDatabase |-> <<"d","_","u">>, Password |-> <<"p">>]),
      JDict([Deployment |-> [TargetConnectionString |-> <<"P","o","w","e","r","B","I",":","/","/","x">>,
                             DeployPartitions |-> TRUE, AccountKey |-> <<"k">>]]) }

ConfigEnvs ==
    [ tool : {"validate_config"},
      argv : ConfigArgvs,
      fileExists : BOOLEAN,
      jsonValid : BOOLEAN,
      data : ConfigDocs,
      schema : {"missing", "invalid", "ok"},
      hasJsonschema : BOOLEAN,
      violations : 0..MaxViolations ]

ValidateConfig ==
    /\ pc = "start"
    /\ env.tool = "validate_config"
    /\ result' = validate_config_main(env)
    /\ pc' = "done"
    /\ UNCHANGED env

(***************************************************************************)
(* validate_rules.py                                                       *)
(*                                                                         *)
(* A rule (a JSON object) is a function from its keys to its values: ID    *)
(* and Expression are character sequences, Severity an integer, Name,      *)
(* Scope and Category strings, FixExpression [null, text] (null for the    *)
(* JSON value null).  An element of the rules array is [kind, fields],     *)
(* kind "dict" for an object and "scalar" for any other JSON value.        *)
(* A returned error is [kind, idx]: the check that produced it and the     *)
(* index of the array element it is about.                                 *)
(***************************************************************************)
REQUIRED_FIELDS == <<"ID", "Name", "Severity", "Scope", "Expression">>

OPTIONAL_FIELDS == <<"Category", "Description", "FixExpression", "CompatibilityLevel",
                     "Source", "Remarks">>

ALLOWED_FIELDS == {REQUIRED_FIELDS[i] : i \in 1..Len(REQUIRED_FIELDS)}
                  \cup {OPTIONAL_FIELDS[i] : i \in 1..Len(OPTIONAL_FIELDS)}

RUNTIME_FIELDS == {"ErrorMessage", "ObjectCount"}

STANDARD_CATEGORIES == {"DAX Expressions", "Metadata", "Performance", "Naming Conventions",
                        "Model Layout", "Formatting", "Governance", "Maintenance",
                        "Error Prevention", "Data Quality"}

known_prefixes == { <<"D","A","X","_">>, <<"M","E","T","A","_">>, <<"P","E","R","F","_">>,
                    <<"N","A","M","E","_">>, <<"L","A","Y","O","U","T","_">>,
                    <<"F","O","R","M","A","T","_">>, <<"G","O","V","_">>,
                    <<"M","A","I","N","T","_">>, <<"E","R","R","_">>, <<"P","Q","_">> }

DELETE_CALL == <<"D","e","l","e","t","e","(",")">>

Err(kind, idx) == [kind |-> kind, idx |-> idx]

\* the body of the loop of check_te_compatibility for element i (0-based)
te_errors_of(rule, i) ==
    (IF "_comment" \in DOMAIN rule THEN <<Err("te_comment", i)>> ELSE <<>>)
    \o (IF (DOMAIN rule) \cap RUNTIME_FIELDS # {} THEN <<Err("te_runtime", i)>> ELSE <<>>)
    \o (IF (DOMAIN rule) \ (ALLOWED_FIELDS \cup RUNTIME_FIELDS \cup {"_comment"}) # {}
        THEN <<Err("te_unknown", i)>> ELSE <<>>)

\* check_te_compatibility(rules), elements from position k (1-based) on; it
\* calls rule.get on every element, so it is only evaluated on arrays of objects
RECURSIVE check_te_compatibility_from(_, _)
check_te_compatibility_from(rules, k) ==
    IF k > Len(rules) THEN <<>>
    ELSE te_errors_of(rules[k].fields, k - 1) \o check_te_compatibility_from(rules, k + 1)

check_te_compatibility(rules) == check_te_compatibility_from(rules, 1)

\* fix_te_compatibility on one rule: the rule without its _comment and its null
\* FixExpression
fixed_rule(rule) ==
    LET drop == {key \in DOMAIN rule :
                    \/ key = "_comment"
                    \/ (key = "FixExpression" /\ rule[key].null)}
    IN  [key \in (DOMAIN rule) \ drop |-> rule[key]]

\* number of keys fix_te_compatibility removes from one rule
fixes_in(rule) ==
    Cardinality({key \in DOMAIN rule :
                    \/ key = "_comment"
                    \/ (key = "FixExpression" /\ rule[key].null)})

RECURSIVE fix_count(_)
fix_count(rules) ==
    IF rules = <<>> THEN 0
    ELSE fixes_in(Head(rules).fields) + fix_count(Tail(rules))

\* fix_te_compatibility(rules): the rules after the in-place fix
fix_te_compatibility(rules) ==
    [k \in 1..Len(rules) |-> [kind |-> "dict", fields |-> fixed_rule(rules[k].fields)]]

\* what the JSON Schema validator reports for one rule under the rules schema:
\* one violation per required property that is missing
RECURSIVE SchemaViolationsOf(_, _, _)
SchemaViolationsOf(rule, i, f) ==
    IF f > Len(REQUIRED_FIELDS) THEN <<>>
    ELSE (IF REQUIRED_FIELDS[f] \in DOMAIN rule THEN <<>> ELSE <<Err("schema", i)>>)
         \o SchemaViolationsOf(rule, i, f + 1)

\* Draft7Validator(schema).iter_errors(rules), elements from position k on: an
\* element that is not an object violates the items type
RECURSIVE SchemaViolations(_, _)
SchemaViolations(rules, k) ==
    IF k > Len(rules) THEN <<>>
    ELSE (IF rules[k].kind = "dict"
          THEN SchemaViolationsOf(rules[k].fields, k - 1, 1)
          ELSE <<Err("schema", k - 1)>>)
         \o SchemaViolations(rules, k + 1)

\* validate_with_schema(rules, schema) of validate_rules.py
rules_validate_with_schema(rules, hasJsonschema) ==
    IF ~hasJsonschema
    THEN [errors |-> <<>>, printed |-> <<Line("WARN", "jsonschema not installed")>>]
    ELSE [errors |-> SchemaViolations(rules, 1), printed |-> <<>>]

\* the Expression compares strings with = " or =" and names no case handling
case_sensitive_compare(expr) ==
    /\ \/ Contains(expr, <<"="," ","\"">>)
       \/ Contains(expr, <<"=","\"">>)
    /\ ~Contains(expr, <<"S","t","r","i","n","g","C","o","m","p","a","r","i","s","o","n">>)
    /\ ~Contains(expr, <<"T","o","L","o","w","e","r">>)
    /\ ~Contains(expr, <<"T","o","U","p","p","e","r">>)

\* the condition of the destructive-fix message, were Severity 3 to count as low
destructive_fix_le(rule) ==
    /\ "FixExpression" \in DOMAIN rule
    /\ ~rule["FixExpression"].null
    /\ Contains(rule["FixExpression"].text, DELETE_CALL)
    /\ Get(rule, "Severity", 1) <= 3

\* the condition of the destructive-fix message of validate_rule_extras
destructive_fix(rule) ==
    /\ "FixExpression" \in DOMAIN rule
    /\ ~rule["FixExpression"].null
    /\ Contains(rule["FixExpression"].text, DELETE_CALL)
    /\ Get(rule, "Severity", 1) < 3

\* validate_rule_extras, were a non-standard category returned as a message
validate_rule_extras_category_error(rule, index) ==
    LET m  == IF destructive_fix(rule) THEN <<Err("destructive", index)>> ELSE <<>>
        c  == IF "Category" \in DOMAIN rule /\ rule["Category"] \notin STANDARD_CATEGORIES
              THEN <<Err("category", index)>> ELSE <<>>
    IN  [errors |-> m \o c, printed |-> <<>>]

\* validate_rule_extras(rule, index): the returned messages and the printed warnings
validate_rule_extras(rule, index) ==
    LET w1 == IF "ID" \in DOMAIN rule
                 /\ ~\E p \in known_prefixes : StartsWith(rule["ID"], p)
              THEN <<Line("WARN", "ID doesn't use standard prefix")>> ELSE <<>>
        w2 == IF "Category" \in DOMAIN rule /\ rule["Category"] \notin STANDARD_CATEGORIES
              THEN <<Line("WARN", "Non-standard category")>> ELSE <<>>
        m  == IF destructive_fix(rule) THEN <<Err("destructive", index)>> ELSE <<>>
        w3 == IF "Expression" \in DOMAIN rule /\ case_sensitive_compare(rule["Expression"])
              THEN <<Line("WARN", "String comparison may be case-sensitive")>> ELSE <<>>
    IN  [errors |-> m, printed |-> w1 \o w2 \o w3]

\* the test "if rule_id:" on rule.get("ID"): the ID is present and not empty
id_truthy(rule) == "ID" \in DOMAIN rule /\ rule["ID"] # <<>>

\* the loop "for i, rule in enumerate(rules)" of validate_rules_file from position
\* k (1-based) on, seen_ids being the IDs met so far
RECURSIVE rules_scan(_, _, _)
rules_scan(rules, k, seen_ids) ==
    IF k > Len(rules) THEN NoFindings
    ELSE IF rules[k].kind # "dict"
    THEN LET rest == rules_scan(rules, k + 1, seen_ids)
         IN  [errors |-> <<Err("not_object", k - 1)>> \o rest.errors, printed |-> rest.printed]
    ELSE LET rule == rules[k].fields
             x == validate_rule_extras(rule, k - 1)
             dup == IF id_truthy(rule) /\ rule["ID"] \in seen_ids
                    THEN <<Err("duplicate", k - 1)>> ELSE <<>>
             seen == IF id_truthy(rule) THEN seen_ids \cup {rule["ID"]} ELSE seen_ids
             rest == rules_scan(rules, k + 1, seen)
         IN  [errors |-> x.errors \o dup \o rest.errors,
              printed |-> x.printed \o rest.printed]

\* validate_rules_file, were the extra checks to run before the schema validation
validate_rules_file_extras_first(rules, schema, schema_only, hasJsonschema) ==
    IF \E k \in 1..Len(rules) : rules[k].kind # "dict"
    THEN [crashed |-> TRUE, errors |-> <<>>, printed |-> <<>>]
    ELSE LET te_errors == check_te_compatibility(rules)
             s == IF schema THEN rules_validate_with_schema(rules, hasJsonschema)
                  ELSE NoFindings
             x == rules_scan(rules, 1, {})
         IN  IF schema /\ schema_only
             THEN [crashed |-> FALSE, errors |-> te_errors \o s.errors, printed |-> s.printed]
             ELSE [crashed |-> FALSE, errors |-> te_errors \o x.errors \o s.errors,
                   printed |-> x.printed \o s.printed]

\* validate_rules_file(rules, schema, schema_only): [crashed, errors, printed].
\* check_te_compatibility calls rule.get on every element before anything else, so
\* an element that is not an object raises AttributeError out of the function.
validate_rules_file(rules, schema, schema_only, hasJsonschema) ==
    IF \E k \in 1..Len(rules) : rules[k].kind # "dict"
    THEN [crashed |-> TRUE, errors |-> <<>>, printed |-> <<>>]
    ELSE LET te_errors == check_te_compatibility(rules)
             s == IF schema THEN rules_validate_with_schema(rules, hasJsonschema)
                  ELSE NoFindings
             x == rules_scan(rules, 1, {})
         IN  IF schema /\ schema_only
             THEN [crashed |-> FALSE, errors |-> te_errors \o s.errors, printed |-> s.printed]
             ELSE [crashed |-> FALSE, errors |-> te_errors \o s.errors \o x.errors,
                   printed |-> s.printed \o x.printed]

\* load_schema() of validate_rules.py
load_schema(e) ==
    IF e.schema = "missing"
    THEN [schema |-> FALSE, printed |-> <<Line("WARN", "Schema file not found")>>]
    ELSE IF e.schema = "invalid"
    THEN [schema |-> FALSE, printed |-> <<Line("WARN", "Invalid schema JSON")>>]
    ELSE [schema |-> TRUE, printed |-> <<>>]

(***************************************************************************)
(* Line endings.  The bytes of a file are a sequence over "CR", "LF" and   *)
(* "x" (any other byte).                                                   *)
(***************************************************************************)
CRLF == <<"CR", "LF">>

\* check_line_endings(file_path)[0]
check_line_endings(bytes) ==
    LET has_crlf == Contains(bytes, CRLF)
        has_lf_only == InSeq("LF", bytes) /\ ~has_crlf
    IN  ~has_lf_only

\* content.replace(b'\n', b'\r\n')
RECURSIVE ReplaceLF(_)
ReplaceLF(bytes) ==
    IF bytes = <<>> THEN <<>>
    ELSE (IF Head(bytes) = "LF" THEN CRLF ELSE <<Head(bytes)>>) \o ReplaceLF(Tail(bytes))

\* fix_line_endings(file_path): the bytes of the file afterwards
fix_line_endings(bytes) ==
    IF Contains(bytes, CRLF) THEN bytes ELSE ReplaceLF(bytes)

\* fix_line_endings(file_path): the value returned
fix_line_endings_returns(bytes) == ~Contains(bytes, CRLF)

\* the bytes json.dump(rules, f, indent=4) leaves in a file opened in text mode:
\* the indented document of a non-empty array spans lines, each ended by the
\* platform's line separator
dumped_bytes(linesep) ==
    IF linesep = "CRLF" THEN <<"x", "CR", "LF", "x">> ELSE <<"x", "LF", "x">>

\* [a for a in sys.argv[1:] if not a.startswith("--")]
RECURSIVE positional_args(_)
positional_args(argv) ==
    IF argv = <<>> THEN <<>>
    ELSE (IF StartsWith(Head(argv), DASHDASH) THEN <<>> ELSE <<Head(argv)>>)
         \o positional_args(Tail(argv))

\* a run of main(): the result, and the bytes and the parsed content of the file
\* when the process has exited
Ran(res, bytes, content) == [res |-> res, bytes |-> bytes, content |-> content]

\* main() of validate_rules.py from "# Parse JSON" on; from_file: file_path is set;
\* bytes: the file's bytes after the line-ending step; out: the lines printed so far
rules_main_validate(e, from_file, fix_mode, schema_only, bytes, out) ==
    IF e.content.kind = "invalid"
    THEN Ran(Exit(1, <<>>, out \o <<Line("plain", "Error: Invalid JSON")>>, FALSE),
             bytes, e.content)
    ELSE IF e.content.kind # "list"
    THEN Ran(Exit(1, <<>>, out \o <<Line("plain", "Error: Rules file must be a JSON array")>>,
                  FALSE), bytes, e.content)
    ELSE
    LET rules0 == e.content.items
        fixing == fix_mode /\ from_file
    IN  IF fixing /\ \E k \in 1..Len(rules0) : rules0[k].kind # "dict"
        THEN \* fix_te_compatibility: "for key in rule" on a JSON number raises TypeError
             Ran([Crash(out) EXCEPT !.validated = FALSE], bytes, e.content)
        ELSE
        LET fixes == IF fixing THEN fix_count(rules0) ELSE 0
            rewritten == fixing /\ fixes > 0
            rules == IF rewritten THEN fix_te_compatibility(rules0) ELSE rules0
            bytes2 == IF rewritten THEN fix_line_endings(dumped_bytes(e.linesep)) ELSE bytes
            content2 == IF rewritten THEN [kind |-> "list", items |-> rules] ELSE e.content
            out2 == out \o (IF rewritten
                            THEN <<Line("FIXED", "Removed TE compatibility issues")>>
                            ELSE <<>>)
            ls == load_schema(e)
            r == validate_rules_file(rules, ls.schema, schema_only, e.hasJsonschema)
            out3 == out2 \o ls.printed \o r.printed
        IN  IF r.crashed
            THEN Ran(Crash(out3), bytes2, content2)
            ELSE IF r.errors # <<>>
            THEN Ran(Exit(1, r.errors, out3 \o ErrorLines(r.errors), TRUE), bytes2, content2)
            ELSE Ran(Exit(0, r.errors, out3 \o <<Line("plain", "All rules are valid")>>, TRUE),
                     bytes2, content2)

\* main() of validate_rules.py; e.argv is sys.argv[1:]
validate_rules_main(e) ==
    IF Len(e.argv) < 1
    THEN Ran(Exit(1, <<>>, <<Line("plain", "Usage")>>, FALSE), e.bytes, e.content)
    ELSE
    LET schema_only == InSeq(FLAG_SCHEMA_ONLY, e.argv)
        fix_mode == InSeq(FLAG_FIX, e.argv)
        args == positional_args(e.argv)
    IN  IF args = <<>>
        THEN Ran(Exit(1, <<>>, <<Line("plain", "Error: No input file specified")>>, FALSE),
                 e.bytes, e.content)
        ELSE IF args[1] = FLAG_STDIN
        THEN rules_main_validate(e, FALSE, fix_mode, schema_only, e.bytes, <<>>)
        ELSE IF ~e.fileExists
        THEN Ran(Exit(1, <<>>, <<Line("plain", "Error: File not found")>>, FALSE),
                 e.bytes, e.content)
        ELSE IF check_line_endings(e.bytes)
        THEN rules_main_validate(e, TRUE, fix_mode, schema_only, e.bytes, <<>>)
        ELSE IF fix_mode
        THEN rules_main_validate(e, TRUE, fix_mode, schema_only, fix_line_endings(e.bytes),
                                 <<Line("FIXED", "Converted to Windows line endings (CRLF)")>>)
        ELSE rules_main_validate(e, TRUE, fix_mode, schema_only, e.bytes,
                                 <<Line("ERROR", "File uses Unix line endings (LF)")>>)

(***************************************************************************)
(* Environments of validate_rules.py.                                      *)
(***************************************************************************)
ID_DAX_A == <<"D","A","X","_","A">>
ID_ZZ == <<"Z","Z">>

EXPR_PLAIN == <<"I","s","H","i","d","d","e","n">>
EXPR_COMPARE == <<"N","a","m","e","=","\"","a","\"">>

FIX_DELETE == [null |-> FALSE, text |-> <<"i","t",".","D","e","l","e","t","e","(",")">>]
FIX_NULL == [null |-> TRUE, text |-> <<>>]

\* f with key k set to v
With(f, k, v) == [x \in (DOMAIN f) \cup {k} |-> IF x = k THEN v ELSE f[x]]

\* f without key k
Drop(f, k) == [x \in (DOMAIN f) \ {k} |-> f[x]]

\* a rule with every required field and nothing to report
CleanRule == [ID |-> ID_DAX_A, Name |-> "n", Severity |-> 3, Scope |-> "Table",
              Expression |-> EXPR_PLAIN]

\* the choices for a field that may be absent
Absent == [has |-> FALSE]
Present(v) == [has |-> TRUE, v |-> v]

Put(f, k, choice) == IF choice.has THEN With(f, k, choice.v) ELSE Drop(f, k)

Obj(fields) == [kind |-> "dict", fields |-> fields]

\* an array element that is no object (a JSON number)
Scalar == [kind |-> "scalar", fields |-> <<>>]

\* ID absent, empty, with and without a standard prefix; Severity absent, 1 or 3;
\* FixExpression absent or a deletion
CoreRules ==
    { Obj(Put(Put(Put(CleanRule, "ID", id), "Severity", sev), "FixExpression", fix)) :
        id \in {Absent, Present(<<>>), Present(ID_DAX_A), Present(ID_ZZ)},
        sev \in {Absent, Present(1), Present(3)},
        fix \in {Absent, Present(FIX_DELETE)} }

\* one more feature each: a TE-incompatible key, a runtime key, an unknown key,
\* stylistic findings, a null fix, Severity 2, a missing Name, a non-object
EdgeRules ==
    { Obj(With(CleanRule, "_comment", "c")),
      Obj(With(CleanRule, "ErrorMessage", "m")),
      Obj(With(CleanRule, "Owner", "o")),
      Obj(With(With(CleanRule, "Category", "Custom"), "Expression", EXPR_COMPARE)),
      Obj(With(CleanRule, "FixExpression", FIX_NULL)),
      Obj(With(With(CleanRule, "Severity", 2), "FixExpression", FIX_DELETE)),
      Obj(Drop(CleanRule, "Name")),
      Scalar }

RuleUniverse == CoreRules \cup EdgeRules

\* the rules the command-line variations are combined with
FewRules ==
    { Obj(CleanRule),
      Obj(With(With(CleanRule, "_comment", "c"), "FixExpression", FIX_NULL)),
      Obj(With(With(With(CleanRule, "ID", ID_ZZ), "Category", "Custom"),
               "Expression", EXPR_COMPARE)),
      Obj(With(With(CleanRule, "Severity", 1), "FixExpression", FIX_DELETE)),
      Obj(Drop(CleanRule, "ID")),
      Scalar }

\* the arrays of at most MaxRules elements of U
Arrays(U) == UNION {[1..n -> U] : n \in 0..MaxRules}

ListContent(items) == [kind |-> "list", items |-> items]
InvalidJson == [kind |-> "invalid", items |-> <<>>]
NotAnArray == [kind |-> "dict", items |-> <<>>]

RULES_PATH == <<"r",".","j","s","o","n">>

RulesArgvs ==
    { <<>>, <<RULES_PATH>>, <<FLAG_STDIN>>, <<FLAG_SCHEMA_ONLY, RULES_PATH>>,
      <<FLAG_FIX, RULES_PATH>>, <<FLAG_SCHEMA_ONLY, FLAG_STDIN>>,
      <<FLAG_STDIN, RULES_PATH>> }

ByteLayouts ==
    { <<"x">>, <<"x", "LF", "x">>, <<"x", "CR", "LF", "x">>, <<"x", "CR", "LF", "x", "LF">> }

\* every command line, file state and platform, on arrays of FewRules
RulesEnvsMain ==
    [ tool : {"validate_rules"},
      argv : RulesArgvs,
      fileExists : BOOLEAN,
      bytes : ByteLayouts,
      content : {InvalidJson, NotAnArray} \cup {ListContent(a) : a \in Arrays(FewRules)},
      linesep : {"LF", "CRLF"},
      schema : {"missing", "invalid", "ok"},
      hasJsonschema : BOOLEAN ]

\* every array of RuleUniverse, in a CRLF file, with and without --schema-only,
\* the schema and the jsonschema library
RulesEnvsFile ==
    [ tool : {"validate_rules"},
      argv : {<<RULES_PATH>>, <<FLAG_SCHEMA_ONLY, RULES_PATH>>},
      fileExists : {TRUE},
      bytes : {<<"x", "CR", "LF", "x">>},
      content : {ListContent(a) : a \in Arrays(RuleUniverse)},
      linesep : {"LF"},
      schema : {"missing", "ok"},
      hasJsonschema : BOOLEAN ]

RulesEnvs == RulesEnvsMain \cup RulesEnvsFile

ValidateRules ==
    /\ pc = "start"
    /\ env.tool = "validate_rules"
    /\ LET ran == validate_rules_main(env)
       IN  /\ result' = ran.res
           /\ env' = [env EXCEPT !.bytes = ran.bytes, !.content = ran.content]
    /\ pc' = "done"

(***************************************************************************)
(* validate_macros.py                                                      *)
(*                                                                         *)
(* A macro is a function from its keys to its values: Name a string,       *)
(* Execute and Enabled character sequences, Id an integer.                 *)
(***************************************************************************)
\* validate_with_schema(data, schema) of validate_macros.py
macros_validate_with_schema(e) ==
    IF ~e.hasJsonschema
    THEN [errors |-> <<>>, printed |-> <<Line("WARN", "jsonschema not installed")>>]
    ELSE [errors |-> SchemaErrorList(e.violations), printed |-> <<>>]

\* not s.strip(): s holds nothing but white space
IsBlank(s) == \A i \in 1..Len(s) : s[i] = " "

\* validate_macro_extras(macro, index): the returned messages and the printed warnings
validate_macro_extras(macro, index) ==
    LET w1 == IF Get(macro, "Name", "") = ""
              THEN <<Line("WARN", "Macro has no Name")>> ELSE <<>>
        m  == IF IsBlank(Get(macro, "Execute", <<>>))
              THEN <<Err("empty_execute", index)>> ELSE <<>>
        enabled == Get(macro, "Enabled", <<"t","r","u","e">>)
        w2 == IF enabled # <<>> /\ Contains(enabled, <<";">>)
              THEN <<Line("WARN", "Enabled expression contains semicolon")>> ELSE <<>>
        execute == Get(macro, "Execute", <<>>)
        w3 == IF Contains(execute, DELETE_CALL) \/ Contains(execute, <<".">> \o DELETE_CALL)
              THEN <<Line("WARN", "Execute contains Delete()")>> ELSE <<>>
        w4 == IF /\ Contains(execute, <<"M","o","d","e","l",".","D","a","t","a","b","a","s","e">>)
                 /\ Contains(execute, <<"D","e","p","l","o","y">>)
              THEN <<Line("WARN", "Execute may perform deployment operations")>> ELSE <<>>
    IN  [errors |-> m, printed |-> w1 \o w2 \o w3 \o w4]

\* the test "macro_id is not None and macro_id != -1" on macro.get("Id")
id_counts(macro) == "Id" \in DOMAIN macro /\ macro["Id"] # -1

\* the test "if name:" on macro.get("Name")
name_truthy(macro) == "Name" \in DOMAIN macro /\ macro["Name"] # ""

\* the loop "for i, macro in enumerate(actions)" of validate_macros_file from
\* position k (1-based) on
RECURSIVE macros_scan(_, _, _, _)
macros_scan(actions, k, seen_ids, seen_names) ==
    IF k > Len(actions) THEN NoFindings
    ELSE IF actions[k].kind # "dict"
    THEN LET rest == macros_scan(actions, k + 1, seen_ids, seen_names)
         IN  [errors |-> <<Err("not_object", k - 1)>> \o rest.errors, printed |-> rest.printed]
    ELSE LET macro == actions[k].fields
             x == validate_macro_extras(macro, k - 1)
             dup == IF id_counts(macro) /\ macro["Id"] \in seen_ids
                    THEN <<Err("duplicate_id", k - 1)>> ELSE <<>>
             ids == IF id_counts(macro) THEN seen_ids \cup {macro["Id"]} ELSE seen_ids
             w == IF name_truthy(macro) /\ macro["Name"] \in seen_names
                  THEN <<Line("WARN", "Duplicate Name")>> ELSE <<>>
             names == IF name_truthy(macro) THEN seen_names \cup {macro["Name"]}
                      ELSE seen_names
             rest == macros_scan(actions, k + 1, ids, names)
         IN  [errors |-> x.errors \o dup \o rest.errors,
              printed |-> x.printed \o w \o rest.printed]

\* validate_macros_file(data, schema, schema_only); data is [kind, actions]: kind
\* "scalar" for a document that is no object, "no_actions" for an object without
\* Actions, "actions_string" and "actions_number" for an Actions that is no array,
\* "actions" for an object whose Actions is the array data.actions
validate_macros_file(e, data, schema, schema_only) ==
    IF data.kind = "scalar"
    THEN [errors |-> <<Err("structure", 0)>>, printed |-> <<>>]
    ELSE IF data.kind = "no_actions"
    THEN [errors |-> <<Err("structure", 0)>>, printed |-> <<>>]
    ELSE IF data.kind # "actions"
    THEN [errors |-> <<Err("structure", 0)>>, printed |-> <<>>]
    ELSE LET s == IF schema THEN macros_validate_with_schema(e) ELSE NoFindings
             x == macros_scan(data.actions, 1, {}, {})
         IN  IF schema /\ schema_only
             THEN s
             ELSE [errors |-> s.errors \o x.errors, printed |-> s.printed \o x.printed]

\* load_schema() of validate_macros.py
macros_load_schema(e) ==
    IF e.schema = "missing"
    THEN [schema |-> FALSE, printed |-> <<Line("WARN", "Schema file not found")>>]
    ELSE IF e.schema = "invalid"
    THEN [schema |-> FALSE, printed |-> <<Line("WARN", "Invalid schema JSON")>>]
    ELSE [schema |-> TRUE, printed |-> <<>>]

\* main() of validate_macros.py from "# Parse JSON" on
macros_main_validate(e, schema_only) ==
    IF e.data.kind = "invalid"
    THEN Exit(1, <<>>, <<Line("plain", "Error: Invalid JSON")>>, FALSE)
    ELSE LET ls == macros_load_schema(e)
         IN  IF e.data.kind = "actions_number"
             THEN \* len(data.get("Actions", [])) on a JSON number raises TypeError
                  [Crash(ls.printed) EXCEPT !.validated = FALSE]
             ELSE LET r == validate_macros_file(e, e.data, ls.schema, schema_only)
                      out == ls.printed \o r.printed
                  IN  IF r.errors # <<>>
                      THEN Exit(1, r.errors, out \o ErrorLines(r.errors), TRUE)
                      ELSE Exit(0, r.errors,
                                out \o <<Line("plain", "All macros are valid")>>, TRUE)

\* main() of validate_macros.py; e.argv is sys.argv[1:]
validate_macros_main(e) ==
    IF Len(e.argv) < 1
    THEN Exit(1, <<>>, <<Line("plain", "Usage")>>, FALSE)
    ELSE
    LET schema_only == InSeq(FLAG_SCHEMA_ONLY, e.argv)
        args == Without(e.argv, FLAG_SCHEMA_ONLY)
    IN  IF args = <<>>
        THEN Exit(1, <<>>, <<Line("plain", "Error: No input file specified")>>, FALSE)
        ELSE IF args[1] = FLAG_STDIN
        THEN macros_main_validate(e, schema_only)
        ELSE IF ~e.fileExists
        THEN Exit(1, <<>>, <<Line("plain", "Error: File not found")>>, FALSE)
        ELSE macros_main_validate(e, schema_only)

(***************************************************************************)
(* Environments of validate_macros.py.                                     *)
(***************************************************************************)
EXEC_PLAIN == <<"I","n","f","o","(","1",")">>
EXEC_DELETE == <<"S","e","l","e","c","t","e","d",".","D","e","l","e","t","e","(",")">>
EXEC_DEPLOY == <<"M","o","d","e","l",".","D","a","t","a","b","a","s","e",".","D","e","p","l","o","y","(",")">>

CleanMacro == [Id |-> 1, Name |-> "A", Enabled |-> <<"t","r","u","e">>, Execute |-> EXEC_PLAIN]

MacroUniverse ==
    { Obj(CleanMacro),
      Obj(With(With(CleanMacro, "Id", 2), "Name", "B")),
      \* stylistic findings only: no Name, a statement in Enabled, a deletion
      Obj([Id |-> -1, Enabled |-> <<"a",";","b">>, Execute |-> EXEC_DELETE]),
      \* a Name met before with another Id, a deployment
      Obj(With(With(CleanMacro, "Id", 2), "Execute", EXEC_DEPLOY)),
      Obj([Name |-> "C", Execute |-> <<" "," ">>]),
      Obj([Id |-> -1, Name |-> ""]),
      Obj([Id |-> -1, Name |-> "D", Execute |-> EXEC_PLAIN]),
      Scalar }

MacroArrays == UNION {[1..n -> MacroUniverse] : n \in 0..MaxMacros}

MacroDocs ==
    { [kind |-> k, actions |-> <<>>] :
        k \in {"invalid", "scalar", "no_actions", "actions_string", "actions_number"} }
    \cup { [kind |-> "actions", actions |-> a] : a \in MacroArrays }

MACROS_PATH == <<"m",".","j","s","o","n">>

MacrosEnvs ==
    [ tool : {"validate_macros"},
      argv : {<<>>, <<FLAG_SCHEMA_ONLY>>, <<MACROS_PATH>>, <<FLAG_SCHEMA_ONLY, MACROS_PATH>>,
              <<FLAG_STDIN>>},
      fileExists : BOOLEAN,
      data : MacroDocs,
      schema : {"missing", "invalid", "ok"},
      hasJsonschema : BOOLEAN,
      violations : 0..MaxViolations ]

ValidateMacros ==
    /\ pc = "start"
    /\ env.tool = "validate_macros"
    /\ result' = validate_macros_main(env)
    /\ pc' = "done"
    /\ UNCHANGED env

(***************************************************************************)
(* validate_tmuo.py                                                        *)
(***************************************************************************)
\* validate_with_schema(data, schema) of validate_tmuo.py
tmuo_validate_with_schema(e) ==
    IF ~e.hasJsonschema
    THEN [errors |-> <<>>, printed |-> <<Line("WARN", "jsonschema not installed")>>]
    ELSE [errors |-> SchemaErrorList(e.violations), printed |-> <<>>]

\* validate_tmuo_extras(data) of validate_tmuo.py
validate_tmuo_extras(d) ==
    LET ws_db == Get(d, "WorkspaceDatabase", <<>>)
        w1 == IF ws_db # <<>> /\ ~HasUserMark(ws_db)
              THEN <<Line("WARN", "WorkspaceDatabase name")>> ELSE <<>>
        w2 == PlainTextWarnings(d)
        deployment == Get(d, "Deployment", <<>>)
        to_powerbi == /\ deployment # <<>>
                      /\ Contains(Lower(Get(deployment, "TargetConnectionString", <<>>)),
                                  <<"p","o","w","e","r","b","i",":","/","/">>)
        w3 == IF to_powerbi /\ Get(deployment, "DeployPartitions", FALSE)
              THEN <<Line("WARN", "DeployPartitions=true")>> ELSE <<>>
        w4 == IF to_powerbi /\ Get(deployment, "DeployDataSources", FALSE)
              THEN <<Line("WARN", "DeployDataSources=true")>> ELSE <<>>
        errs == IF Get(d, "UseWorkspace", FALSE) /\ Get(d, "WorkspaceConnection", <<>>) = <<>>
                THEN <<Err("UseWorkspace", 0)>> ELSE <<>>
    IN  [errors |-> errs, printed |-> w1 \o w2 \o w3 \o w4]

\* validate_tmuo_file(data, schema, schema_only)
validate_tmuo_file(e, schema, schema_only) ==
    IF e.data.kind # "dict"
    THEN [errors |-> <<Err("structure", 0)>>, printed |-> <<>>]
    ELSE LET s == IF schema THEN tmuo_validate_with_schema(e) ELSE NoFindings
             x == validate_tmuo_extras(e.data.fields)
         IN  IF schema /\ schema_only
             THEN s
             ELSE [errors |-> s.errors \o x.errors, printed |-> s.printed \o x.printed]

\* load_schema() of validate_tmuo.py
tmuo_load_schema(e) ==
    IF e.schema = "missing"
    THEN [schema |-> FALSE, printed |-> <<Line("WARN", "Schema file not found")>>]
    ELSE IF e.schema = "invalid"
    THEN [schema |-> FALSE, printed |-> <<Line("WARN", "Invalid schema JSON")>>]
    ELSE [schema |-> TRUE, printed |-> <<>>]

\* main() of validate_tmuo.py from "# Parse JSON" on
tmuo_main_validate(e, schema_only) ==
    IF ~e.jsonValid
    THEN Exit(1, <<>>, <<Line("plain", "Error: Invalid JSON")>>, FALSE)
    ELSE LET ls == tmuo_load_schema(e)
             r == validate_tmuo_file(e, ls.schema, schema_only)
             out == ls.printed \o r.printed
         IN  IF r.errors # <<>>
             THEN Exit(1, r.errors, out \o ErrorLines(r.errors), TRUE)
             ELSE Exit(0, r.errors, out \o <<Line("plain", "TMUO file is valid")>>, TRUE)

\* main() of validate_tmuo.py; e.argv is sys.argv[1:]
validate_tmuo_main(e) ==
    IF Len(e.argv) < 1
    THEN Exit(1, <<>>, <<Line("plain", "Usage")>>, FALSE)
    ELSE
    LET schema_only == InSeq(FLAG_SCHEMA_ONLY, e.argv)
        args == Without(e.argv, FLAG_SCHEMA_ONLY)
    IN  IF args = <<>>
        THEN Exit(1, <<>>, <<Line("plain", "Error: No input file specified")>>, FALSE)
        ELSE IF args[1] = FLAG_STDIN
        THEN tmuo_main_validate(e, schema_only)
        ELSE IF ~e.fileExists
        THEN Exit(1, <<>>, <<Line("plain", "Error: File not found")>>, FALSE)
        ELSE tmuo_main_validate(e, schema_only)

TmuoEnvs ==
    [ tool : {"validate_tmuo"},
      argv : {<<>>, <<FLAG_SCHEMA_ONLY>>, <<F_ModelTmuo>>, <<FLAG_SCHEMA_ONLY, F_ModelTmuo>>,
              <<FLAG_STDIN>>},
      fileExists : BOOLEAN,
      jsonValid : BOOLEAN,
      data : ConfigDocs,
      schema : {"missing", "invalid", "ok"},
      hasJsonschema : BOOLEAN,
      violations : 0..MaxViolations ]

ValidateTmuo ==
    /\ pc = "start"
    /\ env.tool = "validate_tmuo"
    /\ result' = validate_tmuo_main(env)
    /\ pc' = "done"
    /\ UNCHANGED env

(***************************************************************************)
(* The validation tools.                                                   *)
(***************************************************************************)
InitValidate ==
    /\ pc = "start"
    /\ env \in ConfigEnvs \cup RulesEnvs \cup MacrosEnvs \cup TmuoEnvs
    /\ result = NoResult

NextValidate ==
    \/ ValidateConfig
    \/ ValidateRules
    \/ ValidateMacros
    \/ ValidateTmuo

SpecValidate == InitValidate /\ [][NextValidate]_vars

(***************************************************************************)
(* bpa_rules_audit.py                                                      *)
(*                                                                         *)
(* An optional value (Optional[...]) is Absent for None and Present(v)     *)
(* otherwise.  Rule IDs, names and the other strings of the audit are only *)
(* compared for equality and are TLA+ strings.                             *)
(***************************************************************************)
BUILTIN_RULES ==
    << [id |-> "TE3_BUILT_IN_DATA_COLUMN_SOURCE",
        category |-> "Schema", description |-> "Data column source validation"],
       [id |-> "TE3_BUILT_IN_EXPRESSION_REQUIRED",
        category |-> "Schema", description |-> "Expression required for calculated objects"],
       [id |-> "TE3_BUILT_IN_AVOID_PROVIDER_PARTITIONS_STRUCTURED",
        category |-> "Data Sources", description |-> "Avoid provider partitions with structured sources"],
       [id |-> "TE3_BUILT_IN_SET_ISAVAILABLEINMDX_FALSE",
        category |-> "Performance", description |-> "Set IsAvailableInMdx to false for non-MDX columns"],
       [id |-> "TE3_BUILT_IN_DATE_TABLE_EXISTS",
        category |-> "Schema", description |-> "Date table should exist"],
       [id |-> "TE3_BUILT_IN_MANY_TO_MANY_SINGLE_DIRECTION",
        category |-> "Relationships", description |-> "Many-to-many should use single direction"],
       [id |-> "TE3_BUILT_IN_RELATIONSHIP_SAME_DATATYPE",
        category |-> "Relationships", description |-> "Relationship columns should have same data type"],
       [id |-> "TE3_BUILT_IN_AVOID_INVALID_CHARACTERS_NAMES",
        category |-> "Naming", description |-> "Avoid invalid characters in names"],
       [id |-> "TE3_BUILT_IN_AVOID_INVALID_CHARACTERS_DESCRIPTIONS",
        category |-> "Metadata", description |-> "Avoid invalid characters in descriptions"],
       [id |-> "TE3_BUILT_IN_SET_ISAVAILABLEINMDX_TRUE_NECESSARY",
        category |-> "Performance", description |-> "Set IsAvailableInMdx true only when necessary"],
       [id |-> "TE3_BUILT_IN_REMOVE_UNUSED_DATA_SOURCES",
        category |-> "Maintenance", description |-> "Remove unused data sources"],
       [id |-> "TE3_BUILT_IN_VISIBLE_TABLES_NO_DESCRIPTION",
        category |-> "Metadata", description |-> "Visible tables should have descriptions"],
       [id |-> "TE3_BUILT_IN_VISIBLE_COLUMNS_NO_DESCRIPTION",
        category |-> "Metadata", description |-> "Visible columns should have descriptions"],
       [id |-> "TE3_BUILT_IN_VISIBLE_MEASURES_NO_DESCRIPTION",
        category |-> "Metadata", description |-> "Visible measures should have descriptions"],
       [id |-> "TE3_BUILT_IN_VISIBLE_CALCULATION_GROUPS_NO_DESCRIPTION",
        category |-> "Metadata", description |-> "Visible calculation groups should have descriptions"],
       [id |-> "TE3_BUILT_IN_VISIBLE_UDF_NO_DESCRIPTION",
        category |-> "Metadata", description |-> "Visible UDFs should have descriptions"],
       [id |-> "TE3_BUILT_IN_PERSPECTIVES_NO_OBJECTS",
        category |-> "Schema", description |-> "Perspectives should contain objects"],
       [id |-> "TE3_BUILT_IN_CALCULATION_GROUPS_NO_ITEMS",
        category |-> "Schema", description |-> "Calculation groups should have items"],
       [id |-> "TE3_BUILT_IN_TRIM_OBJECT_NAMES",
        category |-> "Naming", description |-> "Object names should be trimmed"],
       [id |-> "TE3_BUILT_IN_FORMAT_STRING_COLUMNS",
        category |-> "Formatting", description |-> "Columns should have format strings"],
       [id |-> "TE3_BUILT_IN_TRANSLATE_DISPLAY_FOLDERS",
        category |-> "Translations", description |-> "Display folders should be translated"],
       [id |-> "TE3_BUILT_IN_TRANSLATE_DESCRIPTIONS",
        category |-> "Translations", description |-> "Descriptions should be translated"],
       [id |-> "TE3_BUILT_IN_TRANSLATE_VISIBLE_NAMES",
        category |-> "Translations", description |-> "Visible names should be translated"],
       [id |-> "TE3_BUILT_IN_TRANSLATE_HIERARCHY_LEVELS",
        category |-> "Translations", description |-> "Hierarchy levels should be translated"],
       [id |-> "TE3_BUILT_IN_TRANSLATE_PERSPECTIVES",
        category |-> "Translations", description |-> "Perspectives should be translated"],
       [id |-> "TE3_BUILT_IN_SPECIFY_APPLICATION_NAME",
        category |-> "Metadata", description |-> "Specify application name"],
       [id |-> "TE3_BUILT_IN_POWERBI_LATEST_COMPATIBILITY",
        category |-> "Compatibility", description |-> "Use latest Power BI compatibility level"] >>

\* BPARule.from_dict(data)
from_dict(data) ==
    [ id |-> Get(data, "ID", "UNKNOWN"),
      name |-> Get(data, "Name", "Unnamed"),
      severity |-> Get(data, "Severity", 1),
      scope |-> Get(data, "Scope", ""),
      expression |-> Get(data, "Expression", ""),
      category |-> IF "Category" \in DOMAIN data THEN Present(data["Category"]) ELSE Absent,
      description |-> IF "Description" \in DOMAIN data
                      THEN Present(data["Description"]) ELSE Absent,
      fix_expression |-> IF "FixExpression" \in DOMAIN data
                         THEN Present(data["FixExpression"]) ELSE Absent,
      compatibility_level |-> IF "CompatibilityLevel" \in DOMAIN data
                              THEN Present(data["CompatibilityLevel"]) ELSE Absent,
      is_builtin |-> FALSE,
      is_enabled |-> TRUE,
      is_ignored |-> FALSE ]

\* from_builtin, were the rule enabled whatever the argument
from_builtin_always_enabled(b, enabled) ==
    [ id |-> b.id,
      name |-> b.description,
      severity |-> 2,
      scope |-> "Various",
      expression |-> "(built-in)",
      category |-> Present(b.category),
      description |-> Present(b.description),
      fix_expression |-> Absent,
      compatibility_level |-> Absent,
      is_builtin |-> TRUE,
      is_enabled |-> TRUE,
      is_ignored |-> FALSE ]

\* BPARule.from_builtin(rule_id, enabled) for the catalog entry b
from_builtin(b, enabled) ==
    [ id |-> b.id,
      name |-> b.description,
      severity |-> 2,
      scope |-> "Various",
      expression |-> "(built-in)",
      category |-> Present(b.category),
      description |-> Present(b.description),
      fix_expression |-> Absent,
      compatibility_level |-> Absent,
      is_builtin |-> TRUE,
      is_enabled |-> enabled,
      is_ignored |-> FALSE ]

\* RuleSource(location, path, rules, error)
RuleSource(location, path, rules, error) ==
    [location |-> location, path |-> path, rules |-> rules, error |-> error]

\* the properties of RuleSource
count(source) == Len(source.rules)
enabled_count(source) == Cardinality({i \in 1..Len(source.rules) : source.rules[i].is_enabled})
ignored_count(source) == Cardinality({i \in 1..Len(source.rules) : source.rules[i].is_ignored})
\* the active count, were an ignored rule to count as active
active_count_enabled_only(source) ==
    Cardinality({i \in 1..Len(source.rules) : source.rules[i].is_enabled})

active_count(source) ==
    Cardinality({i \in 1..Len(source.rules) :
                    source.rules[i].is_enabled /\ ~source.rules[i].is_ignored})

\* [from_dict(r) for r in items]; raises AttributeError when an element is no object
AllObjects(items) == \A i \in 1..Len(items) : items[i].kind = "dict"
FromDicts(items) == [i \in 1..Len(items) |-> from_dict(items[i].fields)]

\* get_windows_appdata_paths(plat): (local_appdata, program_data), both found or
\* both None; e.dirsFound tells whether the directories the platform's lookup
\* walks hold a per-user AppData/Local directory
get_windows_appdata_paths(e) ==
    IF e.dirsFound
    THEN [local_appdata |-> Present("LocalAppData"), program_data |-> Present("ProgramData")]
    ELSE [local_appdata |-> Absent, program_data |-> Absent]

\* BuiltInConfig(status, disabled_ids, app_version, path, error)
BuiltInConfig(status, disabled_ids, app_version, path, error) ==
    [status |-> status, disabled_ids |-> disabled_ids, app_version |-> app_version,
     path |-> path, error |-> error]

\* parse_builtin_config(local_appdata); e.prefs is the state of Preferences.json
parse_builtin_config(e, local_appdata) ==
    IF ~local_appdata.has
    THEN BuiltInConfig("Unknown", <<>>, Absent, Absent,
                       Present("Could not locate Windows LocalAppData directory"))
    ELSE IF e.prefs.state = "missing"
    THEN BuiltInConfig("Unknown", <<>>, Absent, Absent, Present("Preferences.json not found"))
    ELSE IF e.prefs.state = "invalid"
    THEN BuiltInConfig("Unknown", <<>>, Absent, Present("Preferences.json"),
                       Present("JSONDecodeError"))
    ELSE BuiltInConfig(Get(e.prefs.fields, "BuiltInBpaRules", "Enable"),
                       Get(e.prefs.fields, "DisabledBuiltInRuleIds", <<>>),
                       IF "AppVersion" \in DOMAIN e.prefs.fields
                       THEN Present(e.prefs.fields["AppVersion"]) ELSE Absent,
                       Present("Preferences.json"), Absent)

\* get_builtin_rules, were the error of the configuration not looked at
get_builtin_rules_despite_error(config) ==
    IF config.status = "Disable"
    THEN RuleSource("Built-in (TE3)", config.path, <<>>,
                    Present("Built-in rules disabled in Preferences.json"))
    ELSE RuleSource("Built-in (TE3)", config.path,
                    [i \in 1..Len(BUILTIN_RULES) |->
                        from_builtin(BUILTIN_RULES[i],
                                     ~InSeq(BUILTIN_RULES[i].id, config.disabled_ids))],
                    Absent)

\* get_builtin_rules(config)
get_builtin_rules(config) ==
    IF config.status = "Disable"
    THEN RuleSource("Built-in (TE3)", config.path, <<>>,
                    Present("Built-in rules disabled in Preferences.json"))
    ELSE IF config.error.has
    THEN RuleSource("Built-in (TE3)", config.path, <<>>, config.error)
    ELSE RuleSource("Built-in (TE3)", config.path,
                    [i \in 1..Len(BUILTIN_RULES) |->
                        from_builtin(BUILTIN_RULES[i],
                                     ~InSeq(BUILTIN_RULES[i].id, config.disabled_ids))],
                    Absent)

\* what the server answers for a URL: every URL of the model has one answer
NetReply(url) ==
    CASE url = "https://ok/two.json" ->
            [kind |-> "list", items |-> <<Obj([ID |-> "R1", Name |-> "n1", Severity |-> 3]),
                                          Obj([ID |-> "R2"])>>]
      [] url = "https://ok/empty.json" -> [kind |-> "list", items |-> <<>>]
      [] url = "https://ok/mixed.json" ->
            [kind |-> "list", items |-> <<Obj([ID |-> "R3"]), Scalar>>]
      [] url = "https://ok/object.json" -> [kind |-> "dict", items |-> <<>>]
      [] url = "https://gone/404.json" -> [kind |-> "http_error", items |-> <<>>]
      [] url = "https://nohost/r.json" -> [kind |-> "url_error", items |-> <<>>]
      [] url = "https://slow/r.json" -> [kind |-> "timeout", items |-> <<>>]
      [] url = "https://ok/broken.json" -> [kind |-> "invalid_json", items |-> <<>>]

\* fetch_rules_from_url(url); the location is "URL: {url}"
fetch_rules_from_url(url) ==
    LET reply == NetReply(url)
        loc == <<"URL", url>>
    IN  IF reply.kind = "list"
        THEN IF AllObjects(reply.items)
             THEN RuleSource(loc, Absent, FromDicts(reply.items), Absent)
             ELSE RuleSource(loc, Absent, <<>>, Present("AttributeError"))
        ELSE IF reply.kind = "dict"
        THEN RuleSource(loc, Absent, <<>>, Present("Response is not a JSON array"))
        ELSE IF reply.kind = "http_error"
        THEN RuleSource(loc, Absent, <<>>, Present("HTTP 404"))
        ELSE IF reply.kind = "url_error"
        THEN RuleSource(loc, Absent, <<>>, Present("URL error"))
        ELSE IF reply.kind = "invalid_json"
        THEN RuleSource(loc, Absent, <<>>, Present("Invalid JSON"))
        ELSE RuleSource(loc, Absent, <<>>, Present("timed out"))

\* the text of an annotation: "empty" (no value), "invalid" (no JSON), "list" (a
\* JSON array of items) or "dict" (a JSON object; items is its RuleIDs)
Text(kind, items) == [kind |-> kind, items |-> items]
Ann(name, text) == [name |-> name, text |-> text]

\* the annotations of the model in the order of their declaration
Annotations(m) ==
    LET b == IF m.bpa.has THEN <<Ann("BestPracticeAnalyzer", m.bpa.v)>> ELSE <<>>
        u == IF m.urls.has
             THEN <<Ann("BestPracticeAnalyzer_ExternalRuleFiles", m.urls.v)>> ELSE <<>>
        i == IF m.ignore.has
             THEN <<Ann("BestPracticeAnalyzer_IgnoreRules", m.ignore.v)>> ELSE <<>>
    IN  IF m.ignoreFirst THEN i \o b \o u ELSE b \o u \o i

\* the parse of the annotations of a model: the embedded rules, the external URLs,
\* the ignored rule IDs and the error of the source
Parsed(rules, urls, ignored, error) ==
    [rules |-> rules, urls |-> urls, ignored |-> ignored, error |-> error]

\* one step of the loop of parse_bim_annotations on annotation ann, p being what
\* the loop has assigned so far; raised: an exception left the loop
bim_step(p, ann) ==
    LET t == ann.text
        raise == [p EXCEPT !.error = Present("exception")]
    IN  IF ann.name = "BestPracticeAnalyzer"
        THEN IF t.kind = "empty" THEN [p EXCEPT !.rules = <<>>]
             ELSE IF t.kind = "list" /\ AllObjects(t.items)
                  THEN [p EXCEPT !.rules = FromDicts(t.items)]
             ELSE raise
        ELSE IF ann.name = "BestPracticeAnalyzer_ExternalRuleFiles"
        THEN IF t.kind = "empty" THEN [p EXCEPT !.urls = <<>>]
             ELSE IF t.kind = "list" THEN [p EXCEPT !.urls = t.items]
             ELSE IF t.kind = "dict" THEN [p EXCEPT !.urls = <<>>]
             ELSE raise
        ELSE IF ann.name = "BestPracticeAnalyzer_IgnoreRules"
        THEN IF t.kind = "empty" THEN [p EXCEPT !.ignored = <<>>]
             ELSE IF t.kind = "dict" THEN [p EXCEPT !.ignored = t.items]
             ELSE raise
        ELSE p

\* parse_bim_annotations(data): the annotations in order, up to the first exception
RECURSIVE parse_bim_annotations(_, _)
parse_bim_annotations(p, anns) ==
    IF anns = <<>> THEN p
    ELSE LET q == bim_step(p, Head(anns))
         IN  IF q.error.has THEN q ELSE parse_bim_annotations(q, Tail(anns))

\* whether content declares the annotation, and the text of its first declaration
HasAnnotation(anns, name) == \E i \in 1..Len(anns) : anns[i].name = name

FirstAnnotation(anns, name) ==
    anns[CHOOSE i \in 1..Len(anns) :
            anns[i].name = name /\ \A j \in 1..(i - 1) : anns[j].name # name].text

\* extract_annotation_value(content, name) is truthy
Extracted(anns, name) ==
    HasAnnotation(anns, name) /\ FirstAnnotation(anns, name).kind # "empty"

\* parse_tmdl_annotations(content), with the handling of what it raises by
\* parse_model_annotations ("except Exception as e: source.error = str(e)")
parse_tmdl_annotations(anns) ==
    LET p0 == Parsed(<<>>, <<>>, <<>>, Absent)
        bpa == FirstAnnotation(anns, "BestPracticeAnalyzer")
        hasBpa == Extracted(anns, "BestPracticeAnalyzer")
        \* json.loads succeeded and the list comprehension raises AttributeError
        bpaRaises == hasBpa /\ (bpa.kind = "dict" \/ (bpa.kind = "list" /\ ~AllObjects(bpa.items)))
        p1 == IF ~hasBpa THEN p0
              ELSE IF bpa.kind = "invalid"
                   THEN [p0 EXCEPT !.error = Present("Error parsing BestPracticeAnalyzer")]
              ELSE IF bpaRaises THEN [p0 EXCEPT !.error = Present("AttributeError")]
              ELSE [p0 EXCEPT !.rules = FromDicts(bpa.items)]
        urls == FirstAnnotation(anns, "BestPracticeAnalyzer_ExternalRuleFiles")
        p2 == IF ~Extracted(anns, "BestPracticeAnalyzer_ExternalRuleFiles") THEN p1
              ELSE IF urls.kind = "list" THEN [p1 EXCEPT !.urls = urls.items]
              ELSE p1
        ign == FirstAnnotation(anns, "BestPracticeAnalyzer_IgnoreRules")
        p3 == IF ~Extracted(anns, "BestPracticeAnalyzer_IgnoreRules") THEN p2
              ELSE IF ign.kind = "dict" THEN [p2 EXCEPT !.ignored = ign.items]
              ELSE IF ign.kind = "invalid" THEN p2
              ELSE [p2 EXCEPT !.error = Present("AttributeError")]
    IN  IF bpaRaises THEN p1 ELSE p3

\* parse_model_annotations(model_path): (source, external_urls, ignored_ids);
\* e.model is the state of the model path: kind "missing" (no such path), "bim",
\* "tmdl" and "other_file" (a file, by suffix), "dir_model" and "dir_definition" (a
\* directory holding model.tmdl or definition/model.tmdl), "dir_empty"; jsonOk:
\* the .bim file parses; Annotations(m): its annotations, [name, text] each
parse_model_annotations(e) ==
    LET m == e.model
        none == Parsed(<<>>, <<>>, <<>>, Absent)
        p == IF m.kind = "bim"
                 THEN IF m.jsonOk THEN parse_bim_annotations(none, Annotations(m))
                      ELSE [none EXCEPT !.error = Present("JSONDecodeError")]
             ELSE IF m.kind \in {"tmdl", "dir_model", "dir_definition"}
                 THEN parse_tmdl_annotations(Annotations(m))
             ELSE IF m.kind = "dir_empty"
                 THEN [none EXCEPT !.error = Present("model.tmdl not found in directory")]
             ELSE IF m.kind = "other_file" THEN none
             ELSE [none EXCEPT !.error = Present("Path does not exist")]
        path == IF m.kind \in {"bim", "tmdl"} THEN Present("model_path")
                ELSE IF m.kind \in {"dir_model", "dir_definition"} THEN Present("model.tmdl")
                ELSE Absent
    IN  [source |-> RuleSource("Model-embedded", path, p.rules, p.error),
         external_urls |-> p.urls,
         ignored_ids |-> p.ignored]

\* parse_file_rules(path, location); f is the state of TabularEditor3/BPARules.json
\* under path: "missing", "invalid" (no JSON), "dict" (JSON, no array) or "list"
parse_file_rules(f, location) ==
    IF f.state = "missing"
    THEN RuleSource(location, Absent, <<>>, Present("File not found"))
    ELSE IF f.state = "invalid"
    THEN RuleSource(location, Present("BPARules.json"), <<>>, Present("JSONDecodeError"))
    ELSE IF f.state = "dict"
    THEN RuleSource(location, Present("BPARules.json"), <<>>, Absent)
    ELSE IF AllObjects(f.items)
    THEN RuleSource(location, Present("BPARules.json"), FromDicts(f.items), Absent)
    ELSE RuleSource(location, Present("BPARules.json"), <<>>, Present("AttributeError"))

\* detect_model_format(model_path)
detect_model_format(e) ==
    IF e.model.kind = "bim" THEN "model.bim"
    ELSE IF e.model.kind \in {"tmdl", "dir_model"} THEN "TMDL"
    ELSE IF e.model.kind = "dir_definition" THEN "TMDL (definition/)"
    ELSE "unknown"

\* apply_ignore_status, were an ignored rule disabled as well
apply_ignore_status_disabling(source, ignored_ids) ==
    [source EXCEPT !.rules =
        [i \in 1..Len(source.rules) |->
            IF InSeq(source.rules[i].id, ignored_ids)
            THEN [source.rules[i] EXCEPT !.is_ignored = TRUE, !.is_enabled = FALSE]
            ELSE source.rules[i]]]

\* apply_ignore_status on one source
apply_ignore_status(source, ignored_ids) ==
    [source EXCEPT !.rules =
        [i \in 1..Len(source.rules) |->
            IF InSeq(source.rules[i].id, ignored_ids)
            THEN [source.rules[i] EXCEPT !.is_ignored = TRUE]
            ELSE source.rules[i]]]

\* the loop over the URLs, were it to end at the first failed fetch
RECURSIVE fetch_all_stop_at_error(_)
fetch_all_stop_at_error(urls) ==
    IF urls = <<>> THEN <<>>
    ELSE LET s == fetch_rules_from_url(Head(urls))
         IN  IF s.error.has THEN <<s>> ELSE <<s>> \o fetch_all_stop_at_error(Tail(urls))

\* the loop "for url in external_urls" of audit_bpa_rules
RECURSIVE fetch_all(_)
fetch_all(urls) ==
    IF urls = <<>> THEN <<>>
    ELSE <<fetch_rules_from_url(Head(urls))>> \o fetch_all(Tail(urls))

\* audit_bpa_rules(model_path, fetch_urls): the AuditResult
audit_bpa_rules(e, fetch_urls) ==
    LET dirs == get_windows_appdata_paths(e)
        builtin_config == parse_builtin_config(e, dirs.local_appdata)
        builtin_rules == get_builtin_rules(builtin_config)
        m == parse_model_annotations(e)
        url_rules == IF fetch_urls /\ m.external_urls # <<>>
                     THEN fetch_all(m.external_urls) ELSE <<>>
        user_rules == IF dirs.local_appdata.has
                      THEN parse_file_rules(e.userFile, "User-level (LocalAppData)")
                      ELSE RuleSource("User-level (LocalAppData)", Absent, <<>>,
                               Present("Could not locate Windows LocalAppData directory"))
        machine_rules == IF dirs.program_data.has
                         THEN parse_file_rules(e.machineFile, "Machine-level (ProgramData)")
                         ELSE RuleSource("Machine-level (ProgramData)", Absent, <<>>,
                                  Present("Could not locate Windows ProgramData directory"))
    IN  [ model_format |-> detect_model_format(e),
          platform |-> e.plat,
          builtin_config |-> builtin_config,
          builtin_rules |-> apply_ignore_status(builtin_rules, m.ignored_ids),
          url_rules |-> [i \in 1..Len(url_rules) |->
                            apply_ignore_status(url_rules[i], m.ignored_ids)],
          model_rules |-> apply_ignore_status(m.source, m.ignored_ids),
          user_rules |-> apply_ignore_status(user_rules, m.ignored_ids),
          machine_rules |-> apply_ignore_status(machine_rules, m.ignored_ids),
          ignored_rule_ids |-> m.ignored_ids ]

\* sum(f(s) for s in sources)
RECURSIVE SumCount(_)
SumCount(sources) ==
    IF sources = <<>> THEN 0 ELSE count(Head(sources)) + SumCount(Tail(sources))

\* AuditResult.total_rules
total_rules(a) ==
    count(a.builtin_rules) + SumCount(a.url_rules) + count(a.model_rules)
    + count(a.user_rules) + count(a.machine_rules)

\* AuditResult.url_rules_active_count
RECURSIVE url_rules_active_count(_)
url_rules_active_count(sources) ==
    IF sources = <<>> THEN 0
    ELSE active_count(Head(sources)) + url_rules_active_count(Tail(sources))

\* sum(s.ignored_count for s in self.url_rules)
RECURSIVE SumIgnored(_)
SumIgnored(sources) ==
    IF sources = <<>> THEN 0 ELSE ignored_count(Head(sources)) + SumIgnored(Tail(sources))

\* AuditResult.total_active_rules
total_active_rules(a) ==
    active_count(a.builtin_rules) + url_rules_active_count(a.url_rules)
    + active_count(a.model_rules) + active_count(a.user_rules) + active_count(a.machine_rules)

\* AuditResult.total_ignored
total_ignored(a) ==
    ignored_count(a.builtin_rules) + SumIgnored(a.url_rules)
    + ignored_count(a.model_rules) + ignored_count(a.user_rules)
    + ignored_count(a.machine_rules)

\* the exit code of main() of bpa_rules_audit.py
audit_exit_code(a) ==
    LET has_errors == \/ a.builtin_config.error.has
                      \/ a.model_rules.error.has
                      \/ a.user_rules.error.has
                      \/ a.machine_rules.error.has
    IN  IF has_errors THEN 1
        ELSE IF total_rules(a) = 0 THEN 2
        ELSE 0

\* the dict of a rule in export_json
rule_to_dict(r, include_status) ==
    LET rule_dict == [ID |-> r.id, Name |-> r.name, Category |-> r.category,
                      Severity |-> r.severity, Scope |-> r.scope,
                      Expression |-> r.expression, FixExpression |-> r.fix_expression,
                      CompatibilityLevel |-> r.compatibility_level,
                      IsIgnored |-> r.is_ignored]
    IN  IF include_status
        THEN With(With(rule_dict, "IsEnabled", r.is_enabled), "IsBuiltIn", r.is_builtin)
        ELSE rule_dict

\* source_to_dict(source, include_status) of export_json; None is Absent
source_to_dict(source, include_status) ==
    [location |-> source.location,
     path |-> source.path,
     count |-> count(source),
     active_count |-> active_count(source),
     ignored_count |-> ignored_count(source),
     error |-> source.error,
     rules |-> [i \in 1..Len(source.rules) |-> rule_to_dict(source.rules[i], include_status)]]

\* export_json(result, output_path): the document written to output_path
export_json(a) ==
    [model_path |-> "model_path",
     model_format |-> a.model_format,
     platform |-> a.platform,
     total_rules |-> total_rules(a),
     total_active_rules |-> total_active_rules(a),
     total_ignored |-> total_ignored(a),
     ignored_rule_ids |-> a.ignored_rule_ids,
     builtin_config |-> [status |-> a.builtin_config.status,
                         app_version |-> a.builtin_config.app_version,
                         path |-> a.builtin_config.path,
                         disabled_ids |-> a.builtin_config.disabled_ids,
                         error |-> a.builtin_config.error],
     sources |-> [builtin |-> source_to_dict(a.builtin_rules, TRUE),
                  url |-> [i \in 1..Len(a.url_rules) |-> source_to_dict(a.url_rules[i], FALSE)],
                  model |-> source_to_dict(a.model_rules, FALSE),
                  user |-> source_to_dict(a.user_rules, FALSE),
                  machine |-> source_to_dict(a.machine_rules, FALSE)]]

\* main() of bpa_rules_audit.py from the audit a it ran on: the document exported
\* when --json is given, and the exit code
audit_main(a, json_output) ==
    [exit |-> audit_exit_code(a), audit |-> a,
     exported |-> IF json_output THEN Present(export_json(a)) ELSE Absent]

(***************************************************************************)
(* Environments of bpa_rules_audit.py.                                     *)
(***************************************************************************)
URLS == {"https://ok/two.json", "https://ok/empty.json", "https://ok/mixed.json",
         "https://ok/object.json", "https://gone/404.json", "https://nohost/r.json",
         "https://slow/r.json", "https://ok/broken.json"}

\* the URL lists of at most MaxUrls entries
UrlLists == UNION {[1..n -> URLS] : n \in 0..MaxUrls}

EmbeddedRule == Obj([ID |-> "R1", Name |-> "embedded", Severity |-> 2])

\* the BestPracticeAnalyzer annotation: not declared, or declared with a text
BpaTexts ==
    { Absent, Present(Text("invalid", <<>>)), Present(Text("list", <<EmbeddedRule>>)),
      Present(Text("list", <<EmbeddedRule, Scalar>>)) }

\* the BestPracticeAnalyzer_ExternalRuleFiles annotation
UrlTexts(lists) ==
    { Absent, Present(Text("invalid", <<>>)), Present(Text("dict", <<>>)) }
    \cup { Present(Text("list", l)) : l \in lists }

\* the BestPracticeAnalyzer_IgnoreRules annotation
IgnoreTexts ==
    { Absent, Present(Text("invalid", <<>>)), Present(Text("list", <<>>)),
      Present(Text("dict", <<"R1", "TE3_BUILT_IN_DATA_COLUMN_SOURCE">>)) }

\* the state of the model path; ignoreFirst: the IgnoreRules annotation is
\* declared before the other two
Model(kind, jsonOk, bpa, urls, ignore, ignoreFirst) ==
    [kind |-> kind, jsonOk |-> jsonOk, bpa |-> bpa, urls |-> urls, ignore |-> ignore,
     ignoreFirst |-> ignoreFirst]

AnnotatedModels(kinds, bpas, urls, ignores) ==
    { Model(k, TRUE, b, u, i, f) :
        k \in kinds, b \in bpas, u \in urls, i \in ignores, f \in BOOLEAN }

PlainModels ==
    { Model(k, FALSE, Absent, Absent, Absent, FALSE) :
        k \in {"missing", "other_file", "dir_empty", "bim"} }

PrefsMissing == [state |-> "missing", fields |-> [AppVersion |-> "3"]]
PrefsInvalid == [state |-> "invalid", fields |-> [AppVersion |-> "3"]]
PrefsOk(fields) == [state |-> "ok", fields |-> fields]

PrefsStates ==
    { PrefsMissing, PrefsInvalid,
      PrefsOk([AppVersion |-> "3"]),
      PrefsOk([AppVersion |-> "3", BuiltInBpaRules |-> "Enable",
               DisabledBuiltInRuleIds |-> <<"TE3_BUILT_IN_DATA_COLUMN_SOURCE">>]),
      PrefsOk([BuiltInBpaRules |-> "Disable"]) }

RulesFile(state, items) == [state |-> state, items |-> items]

RulesFiles ==
    { RulesFile("missing", <<>>), RulesFile("invalid", <<>>), RulesFile("dict", <<>>),
      RulesFile("list", <<>>), RulesFile("list", <<Obj([ID |-> "R1"]), Obj([ID |-> "U2"])>>),
      RulesFile("list", <<Obj([ID |-> "U2"]), Scalar>>) }

\* every URL list, on annotated models, with the sources in a few states
AuditEnvsUrls ==
    [ tool : {"bpa_rules_audit"},
      json_output : {FALSE},
      plat : {"windows"},
      dirsFound : {TRUE},
      prefs : {PrefsMissing, PrefsOk([AppVersion |-> "3"]),
               PrefsOk([BuiltInBpaRules |-> "Disable"])},
      model : AnnotatedModels({"bim", "tmdl"},
                              {Absent, Present(Text("list", <<EmbeddedRule>>))},
                              UrlTexts(UrlLists),
                              {Absent, Present(Text("dict", <<"R1">>))}),
      userFile : {RulesFile("missing", <<>>), RulesFile("list", <<Obj([ID |-> "U2"])>>)},
      machineFile : {RulesFile("list", <<>>)} ]

\* every state of every source, on a few models
AuditEnvsSources ==
    [ tool : {"bpa_rules_audit"},
      json_output : {TRUE},
      plat : {"windows", "macos"},
      dirsFound : BOOLEAN,
      prefs : PrefsStates,
      model : PlainModels
              \cup AnnotatedModels({"bim", "tmdl"}, BpaTexts,
                                   {Absent, Present(Text("list", <<"https://gone/404.json">>))},
                                   {Absent, Present(Text("dict", <<"R1">>))}),
      userFile : RulesFiles,
      machineFile : {RulesFile("missing", <<>>), RulesFile("list", <<>>),
                     RulesFile("list", <<Obj([ID |-> "M1"])>>)} ]

\* every model format and every text of every annotation, on every platform
AuditEnvsModels ==
    [ tool : {"bpa_rules_audit"},
      json_output : {TRUE},
      plat : {"windows", "wsl", "macos", "linux"},
      dirsFound : {TRUE},
      prefs : {PrefsOk([AppVersion |-> "3"])},
      model : AnnotatedModels({"bim", "tmdl", "dir_model", "dir_definition"}, BpaTexts,
                              UrlTexts({<<"https://ok/two.json">>}), IgnoreTexts),
      userFile : {RulesFile("missing", <<>>), RulesFile("list", <<Obj([ID |-> "U2"])>>)},
      machineFile : {RulesFile("list", <<>>)} ]

AuditEnvs == AuditEnvsUrls \cup AuditEnvsSources \cup AuditEnvsModels

NoAudit == [exit |-> -1]

Audit ==
    /\ pc = "start"
    /\ env.tool = "bpa_rules_audit"
    /\ \E a \in {audit_bpa_rules(env, TRUE)} : result' = audit_main(a, env.json_output)
    /\ pc' = "done"
    /\ UNCHANGED env

InitAudit ==
    /\ pc = "start"
    /\ env \in AuditEnvs
    /\ result = NoAudit

NextAudit ==
    \/ Audit

SpecAudit == InitAudit /\ [][NextAudit]_vars

(***************************************************************************)
(* extract_annotation_value of bpa_rules_audit.py.                         *)
(*                                                                         *)
(* The content is the sequence of its lines (content.split('\n')); a line  *)
(* and a returned value are sequences of one-character strings.  The       *)
(* annotation names the audit asks for hold no character that is special   *)
(* in a regular expression, so the name matches literally.                 *)
(***************************************************************************)
\* the characters \s matches and str.strip removes
IsSpace(c) == c \in {" ", "\t", "\n", "\r"}

\* s from position k on
From(s, k) == SubSeq(s, k, Len(s))

\* len(s) - len(s.lstrip()): the number of leading white-space characters
LeadingSpace(s) ==
    IF \A i \in 1..Len(s) : IsSpace(s[i]) THEN Len(s)
    ELSE (CHOOSE i \in 1..Len(s) : ~IsSpace(s[i]) /\ \A j \in 1..(i - 1) : IsSpace(s[j])) - 1

\* the number of trailing white-space characters
TrailingSpace(s) ==
    IF \A i \in 1..Len(s) : IsSpace(s[i]) THEN Len(s)
    ELSE Len(s) - (CHOOSE i \in 1..Len(s) :
                      ~IsSpace(s[i]) /\ \A j \in (i + 1)..Len(s) : IsSpace(s[j]))

\* s.lstrip() and s.strip()
LStrip(s) == From(s, LeadingSpace(s) + 1)
Strip(s) == SubSeq(s, LeadingSpace(s) + 1, Len(s) - TrailingSpace(s))

ANNOTATION == <<"a","n","n","o","t","a","t","i","o","n">>
\* the backtick character, which a TLA+ string cannot hold
BACKTICK == "backtick"

FENCE == <<BACKTICK, BACKTICK, BACKTICK>>

\* s.index(p) as a position from 1, 0 when p is not in s
Index(s, p) ==
    IF ~Contains(s, p) THEN 0
    ELSE CHOOSE i \in 1..Len(s) :
            /\ StartsWith(From(s, i), p)
            /\ \A j \in 1..(i - 1) : ~StartsWith(From(s, j), p)

\* the match of a pattern that does not ask for "=" after the name
annotation_match_any_suffix(line, annotation_name) ==
    LET indent == LeadingSpace(line)
        a == From(line, indent + 1)
        b == From(a, Len(ANNOTATION) + 1)
        c == LStrip(b)
        d == From(c, Len(annotation_name) + 1)
        matched == /\ StartsWith(a, ANNOTATION)
                   /\ LeadingSpace(b) >= 1
                   /\ StartsWith(c, annotation_name)
    IN  [matched |-> matched,
         indent |-> indent,
         rest |-> IF matched THEN LStrip(d) ELSE <<>>]

\* re.match(rf"^(\s*)annotation\s+{annotation_name}\s*=\s*(.*)$", line): whether
\* the line matches, len(match.group(1)) and match.group(2)
annotation_match(line, annotation_name) ==
    LET indent == LeadingSpace(line)
        a == From(line, indent + 1)
        b == From(a, Len(ANNOTATION) + 1)
        c == LStrip(b)
        d == From(c, Len(annotation_name) + 1)
        e == LStrip(d)
        matched == /\ StartsWith(a, ANNOTATION)
                   /\ LeadingSpace(b) >= 1
                   /\ StartsWith(c, annotation_name)
                   /\ e # <<>>
                   /\ e[1] = "="
    IN  [matched |-> matched,
         indent |-> indent,
         rest |-> IF matched THEN LStrip(Tail(e)) ELSE <<>>]

\* '\n'.join(value_lines)
RECURSIVE JoinLines(_)
JoinLines(value_lines) ==
    IF value_lines = <<>> THEN <<>>
    ELSE IF Len(value_lines) = 1 THEN value_lines[1]
    ELSE value_lines[1] \o <<"\n">> \o JoinLines(Tail(value_lines))

\* the loop "for j in range(i + 1, len(lines))" of the fenced case from line j on
\* (1-based): the combined text at its return
RECURSIVE fenced_value(_, _, _)
fenced_value(combined, lines, j) ==
    IF j > Len(lines) THEN combined
    ELSE IF Contains(lines[j], FENCE)
    THEN combined \o <<"\n">> \o SubSeq(lines[j], 1, Index(lines[j], FENCE) - 1)
    ELSE fenced_value(combined \o <<"\n">> \o lines[j], lines, j + 1)

\* the removal of the surrounding quotes of the single-line case
remove_quotes(remainder) ==
    IF remainder[1] = "'" /\ remainder[Len(remainder)] = "'"
    THEN SubSeq(remainder, 2, Len(remainder) - 1)
    ELSE IF remainder[1] = "\"" /\ remainder[Len(remainder)] = "\""
    THEN SubSeq(remainder, 2, Len(remainder) - 1)
    ELSE remainder

\* the end of extract_annotation_value: the joined value lines, or None
joined_or_none(value_lines) ==
    IF value_lines # <<>> THEN Present(JoinLines(value_lines)) ELSE Absent

\* the loop "for i, line in enumerate(lines)" of extract_annotation_value from line
\* i on (1-based), with in_annotation, base_indent and value_lines as they stand
RECURSIVE extract_scan(_, _, _, _, _, _)
extract_scan(lines, annotation_name, i, in_annotation, base_indent, value_lines) ==
    IF i > Len(lines) THEN joined_or_none(value_lines)
    ELSE
    LET line == lines[i]
        match == annotation_match(line, annotation_name)
        remainder == Strip(match.rest)
        stripped == LStrip(line)
        current_indent == Len(line) - Len(stripped)
    IN  IF match.matched
        THEN IF StartsWith(remainder, FENCE)
             THEN Present(Strip(fenced_value(From(remainder, 4), lines, i + 1)))
             ELSE IF remainder # <<>>
             THEN IF remainder[1] \in {"[", "{"}
                  THEN extract_scan(lines, annotation_name, i + 1, TRUE, match.indent,
                                    value_lines \o <<remainder>>)
                  ELSE Present(remove_quotes(remainder))
             ELSE extract_scan(lines, annotation_name, i + 1, TRUE, match.indent, value_lines)
        ELSE IF in_annotation
        THEN IF stripped = <<>>
             THEN extract_scan(lines, annotation_name, i + 1, TRUE, base_indent, value_lines)
             ELSE IF current_indent <= base_indent
             THEN joined_or_none(value_lines)
             ELSE extract_scan(lines, annotation_name, i + 1, TRUE, base_indent,
                               value_lines \o <<stripped>>)
        ELSE extract_scan(lines, annotation_name, i + 1, FALSE, base_indent, value_lines)

\* extract_annotation_value(content, annotation_name): Present(value) or Absent (None)
extract_annotation_value(lines, annotation_name) ==
    extract_scan(lines, annotation_name, 1, FALSE, 0, <<>>)

(***************************************************************************)
(* Contents given to extract_annotation_value.                             *)
(***************************************************************************)
KEY == <<"K">>
KEY_LONGER == <<"K","_","I">>

\* the line: indent, "annotation", sep, the key, eq, rest
Declaration(indent, sep, key, eq, rest) == indent \o ANNOTATION \o sep \o key \o eq \o rest

LINE_DOUBLE_QUOTED == Declaration(<<>>, <<" ">>, KEY, <<" ","="," ">>, <<"\"","h","i","\"">>)
LINE_SINGLE_QUOTED == Declaration(<<"\t">>, <<" ">>, KEY, <<" ","="," ">>, <<"'","h","i","'"," ">>)
LINE_LONE_QUOTE == Declaration(<<>>, <<" ">>, KEY, <<"=">>, <<"\"">>)
LINE_HALF_QUOTED == Declaration(<<>>, <<" "," ">>, KEY, <<" ","="," ">>, <<"h","i","\"">>)
LINE_FENCE_OPEN == Declaration(<<>>, <<" ">>, KEY, <<" ","="," ">>, <<BACKTICK,BACKTICK,BACKTICK,"a">>)
LINE_FENCE_INLINE ==
    Declaration(<<"\t">>, <<" ">>, KEY, <<" ","="," ">>, <<BACKTICK,BACKTICK,BACKTICK,"a",BACKTICK,BACKTICK,BACKTICK>>)
LINE_FENCE_CLOSE == <<" ","b",BACKTICK,BACKTICK,BACKTICK,"c">>
LINE_EMPTY_REMAINDER == Declaration(<<>>, <<" ">>, KEY, <<" ","=">>, <<>>)
LINE_JSON_START == Declaration(<<"\t">>, <<" ">>, KEY, <<" ","="," ">>, <<"[">>)
LINE_DEEP == <<"\t","\t","1">>
LINE_INDENTED == <<"\t","2"," ">>
LINE_EMPTY == <<>>
LINE_BLANK == <<" ">>
LINE_FLUSH == <<"x">>
LINE_OTHER_KEY == Declaration(<<>>, <<" ">>, KEY_LONGER, <<" ","="," ">>, <<"z">>)
LINE_NO_SEPARATOR == Declaration(<<>>, <<>>, KEY, <<" ","="," ">>, <<"z">>)
LINE_NOT_AT_START == <<"r"," ">> \o LINE_DOUBLE_QUOTED

ContentLines ==
    { LINE_DOUBLE_QUOTED, LINE_SINGLE_QUOTED, LINE_LONE_QUOTE, LINE_HALF_QUOTED,
      LINE_FENCE_OPEN, LINE_FENCE_INLINE, LINE_FENCE_CLOSE, LINE_EMPTY_REMAINDER,
      LINE_JSON_START, LINE_DEEP, LINE_INDENTED, LINE_EMPTY, LINE_BLANK, LINE_FLUSH,
      LINE_OTHER_KEY, LINE_NO_SEPARATOR, LINE_NOT_AT_START }

\* content.split('\n') of the contents of at most MaxLines lines: one line at least
Contents == UNION {[1..n -> ContentLines] : n \in 1..MaxLines}

ExtractEnvs ==
    [ tool : {"extract_annotation_value"},
      lines : Contents,
      annotation_name : {KEY, KEY_LONGER} ]

ExtractAnnotation ==
    /\ pc = "start"
    /\ env.tool = "extract_annotation_value"
    /\ result' = extract_annotation_value(env.lines, env.annotation_name)
    /\ pc' = "done"
    /\ UNCHANGED env

InitExtract ==
    /\ pc = "start"
    /\ env \in ExtractEnvs
    /\ result = Absent

NextExtract ==
    \/ ExtractAnnotation

SpecExtract == InitExtract /\ [][NextExtract]_vars

(***************************************************************************)
(* add_macro.py and create_macros_json.py: the macros document on disk and *)
(* the calls that write it.                                                *)
(***************************************************************************)
\* the largest of a non-empty finite set of integers
Max(S) == CHOOSE x \in S : \A y \in S : y <= x

\* a path that names no file
MissingFile ==
    [exists |-> FALSE, json |-> "none", keys |-> {}, Actions |-> <<>>, encodable |-> TRUE]

\* a file whose text json.loads rejects; EmptyFile is the file of no bytes
InvalidFile ==
    [exists |-> TRUE, json |-> "invalid", keys |-> {}, Actions |-> <<>>, encodable |-> TRUE]
EmptyFile == InvalidFile

\* a file holding valid JSON that is no object (an array)
ArrayFile ==
    [exists |-> TRUE, json |-> "array", keys |-> {}, Actions |-> <<>>, encodable |-> TRUE]

\* a file holding a JSON object: its top-level keys, the value of "Actions" when it
\* has one, and whether the strings of its macros can be encoded in UTF-8 when
\* written back (a string with an escaped lone surrogate cannot)
Document(keys, actions, encodable) ==
    [exists |-> TRUE, json |-> "object", keys |-> keys,
     Actions |-> IF "Actions" \in keys THEN actions ELSE <<>>,
     encodable |-> encodable \/ "Actions" \notin keys \/ actions = <<>>]

\* the next Id, were it the length of the collection plus one
get_next_id_len(macros) == Len(macros) + 1

\* get_next_id(macros)
get_next_id(macros) ==
    IF macros = <<>> THEN 1
    ELSE Max({Get(macros[i], "Id", 0) : i \in 1..Len(macros)}) + 1

\* the dict built by add_macro and csx_to_macro for a script (without metadata
\* comments) and an Id
new_macro(script, macro_id) ==
    [Id |-> macro_id, Name |-> script.title, Enabled |-> "true",
     Execute |-> script.content, Tooltip |-> "", ValidContexts |-> "Model"]

\* path.write_text(json.dumps({"Actions": macros}), encoding="utf-8"): the file is
\* opened for writing, which empties it, and the text is then encoded and written
write_text(macros, encodable) ==
    IF encodable
    THEN [outcome |-> "ok", file |-> Document({"Actions"}, macros, TRUE)]
    ELSE [outcome |-> "UnicodeEncodeError", file |-> EmptyFile]

\* add_macro, were the existing document not read
add_macro_from_empty(script, file) ==
    IF ~script.exists THEN [outcome |-> "FileNotFoundError", file |-> file]
    ELSE IF ~script.decodable THEN [outcome |-> "UnicodeDecodeError", file |-> file]
    ELSE write_text(<<new_macro(script, get_next_id(<<>>))>>, TRUE)

\* add_macro(csx_path, macros_path): the exception raised, or "ok", and the file at
\* macros_path after the call
add_macro(script, file) ==
    IF ~script.exists THEN [outcome |-> "FileNotFoundError", file |-> file]
    ELSE IF ~script.decodable THEN [outcome |-> "UnicodeDecodeError", file |-> file]
    ELSE IF file.exists /\ file.json = "invalid"
    THEN [outcome |-> "JSONDecodeError", file |-> file]
    ELSE IF file.exists /\ file.json = "array"
    THEN [outcome |-> "AttributeError", file |-> file]
    ELSE LET macros == IF file.exists THEN file.Actions ELSE <<>>
         IN  write_text(Append(macros, new_macro(script, get_next_id(macros))),
                        file.encodable)

\* the loop of create_macros_json from script i on: the macros, or the exception
RECURSIVE create_loop(_, _, _)
create_loop(csx_files, i, macros) ==
    IF i > Len(csx_files) THEN [outcome |-> "ok", macros |-> macros]
    ELSE IF ~csx_files[i].exists THEN [outcome |-> "FileNotFoundError", macros |-> macros]
    ELSE IF ~csx_files[i].decodable THEN [outcome |-> "UnicodeDecodeError", macros |-> macros]
    ELSE create_loop(csx_files, i + 1, Append(macros, new_macro(csx_files[i], i)))

\* create_macros_json, were the macros read so far written when a script is missing
create_macros_json_partial(csx_files, file) ==
    LET loop == create_loop(csx_files, 1, <<>>)
    IN  [outcome |-> loop.outcome, file |-> write_text(loop.macros, TRUE).file]

\* create_macros_json(output_path, csx_files): the exception raised, or "ok", and the
\* file at output_path after the call
create_macros_json(csx_files, file) ==
    LET loop == create_loop(csx_files, 1, <<>>)
    IN  IF loop.outcome = "ok" THEN write_text(loop.macros, TRUE)
        ELSE [outcome |-> loop.outcome, file |-> file]

(***************************************************************************)
(* Scripts, documents and calls.                                           *)
(***************************************************************************)
Script(path, title, exists, decodable) ==
    [path |-> path, title |-> title, content |-> IF exists /\ decodable THEN "Info(1);" ELSE "",
     exists |-> exists, decodable |-> decodable]

SCRIPT_A == Script("format-dax.csx", "Format Dax", TRUE, TRUE)
SCRIPT_B == Script("hide_columns.csx", "Hide Columns", TRUE, TRUE)
SCRIPT_GONE == Script("gone.csx", "Gone", FALSE, FALSE)
SCRIPT_LATIN1 == Script("latin1.csx", "Latin1", TRUE, FALSE)

Scripts == {SCRIPT_A, SCRIPT_B, SCRIPT_GONE, SCRIPT_LATIN1}

ScriptLists ==
    { <<SCRIPT_A>>, <<SCRIPT_B, SCRIPT_A>>, <<SCRIPT_A, SCRIPT_B, SCRIPT_A>>,
      <<SCRIPT_GONE>>, <<SCRIPT_A, SCRIPT_GONE>>, <<SCRIPT_A, SCRIPT_LATIN1, SCRIPT_B>> }

\* the macros of an existing document: with an Id (negative, zero, positive) or none
OLD_MACRO == [Name |-> "Old", Execute |-> "Info(0);"]
ExistingIds == {-1, 0, 2}
ExistingMacros == {OLD_MACRO} \cup {[Id |-> n, Name |-> "Old", Execute |-> "Info(0);"] : n \in ExistingIds}

ExistingActions == UNION {[1..n -> ExistingMacros] : n \in 0..MaxActions}

Documents ==
    { Document(keys, actions, encodable) :
        keys \in {{}, {"Actions"}, {"Actions", "Version"}},
        actions \in ExistingActions,
        encodable \in BOOLEAN }

MacroFiles == {MissingFile, InvalidFile, ArrayFile} \cup Documents

MacrosToolEnvs == [tool : {"macros"}, file : MacroFiles]

\* before any call
NoCall ==
    [file |-> env.file, before |-> env.file, op |-> "none", outcome |-> "none",
     scripts |-> <<>>, calls |-> 0, added |-> 0]

\* the state after a call: the file, the file before the call, the call and its
\* scripts, the number of calls, and the number of calls when each of them was an
\* add_macro that returned (-1 otherwise)
Called(op, scripts, r) ==
    [file |-> r.file, before |-> result.file, op |-> op, outcome |-> r.outcome,
     scripts |-> scripts, calls |-> result.calls + 1,
     added |-> IF op = "add_macro" /\ r.outcome = "ok" /\ result.added = result.calls
               THEN result.added + 1 ELSE -1]

AddMacro ==
    /\ env.tool = "macros"
    /\ result.calls < MaxCalls
    /\ \E script \in Scripts :
          result' = Called("add_macro", <<script>>, add_macro(script, result.file))
    /\ pc' = "done"
    /\ UNCHANGED env

CreateMacrosJson ==
    /\ env.tool = "macros"
    /\ result.calls < MaxCalls
    /\ \E csx_files \in ScriptLists :
          result' = Called("create_macros_json", csx_files,
                           create_macros_json(csx_files, result.file))
    /\ pc' = "done"
    /\ UNCHANGED env

InitMacros ==
    /\ pc = "start"
    /\ env \in MacrosToolEnvs
    /\ result = NoCall

NextMacros ==
    \/ AddMacro
    \/ CreateMacrosJson

SpecMacros == InitMacros /\ [][NextMacros]_vars

(***************************************************************************)
(* fix_line_endings on a file of any bytes, applied once and once more.    *)
(***************************************************************************)
\* the files of at most MaxBytes bytes
ByteFiles == UNION {[1..n -> {"CR", "LF", "x"}] : n \in 0..MaxBytes}

LineEndingEnvs == [tool : {"fix_line_endings"}, bytes : ByteFiles]

\* before any call
NotFixed == [bytes |-> env.bytes, before |-> env.bytes, returned |-> FALSE, calls |-> 0]

\* one call of fix_line_endings on the file: its bytes afterwards and before, the
\* value returned, the number of calls
FixLineEndings ==
    /\ env.tool = "fix_line_endings"
    /\ result.calls < 2
    /\ result' = [bytes |-> fix_line_endings(result.bytes),
                  before |-> result.bytes,
                  returned |-> fix_line_endings_returns(result.bytes),
                  calls |-> result.calls + 1]
    /\ pc' = "done"
    /\ UNCHANGED env

InitLineEndings ==
    /\ pc = "start"
    /\ env \in LineEndingEnvs
    /\ result = NotFixed

NextLineEndings ==
    \/ FixLineEndings

SpecLineEndings == InitLineEndings /\ [][NextLineEndings]_vars

(***************************************************************************)
(* Properties.                                                             *)
(***************************************************************************)
\* the process has exited
Done == pc = "done"

\* some line tagged [ERROR] was printed
PrintedTag(tag) == \E i \in 1..Len(result.printed) : result.printed[i].tag = tag

\* the number of errors of a kind in a returned error list
CountKind(errors, kind) == Cardinality({i \in 1..Len(errors) : errors[i].kind = kind})

\* a run of validate_rules.py that called validate_rules_file and got a list back
RulesReturned ==
    /\ Done
    /\ env.tool = "validate_rules"
    /\ result.validated
    /\ ~result.crashed

\* the run was made with --schema-only and the schema was loaded, so that
\* validate_rules_file returned before its extra checks
SchemaOnlyTaken == InSeq(FLAG_SCHEMA_ONLY, env.argv) /\ env.schema = "ok"

\* the rules validate_rules_file was called with
ValidatedRules == env.content.items

\* some source of the audit result carries an error string
AnySourceError(a) ==
    \/ a.builtin_rules.error.has
    \/ \E i \in 1..Len(a.url_rules) : a.url_rules[i].error.has
    \/ a.model_rules.error.has
    \/ a.user_rules.error.has
    \/ a.machine_rules.error.has

\* the rule count across all sources of the audit result
CountAllRules(a) ==
    Len(a.builtin_rules.rules) + SumCount(a.url_rules) + Len(a.model_rules.rules)
    + Len(a.user_rules.rules) + Len(a.machine_rules.rules)

\* C1: the audit tool exits 1 if any source of the audit result (built-in, every
\* URL source, model-embedded, user-level, machine-level) carries an error string,
\* otherwise 2 if the total rule count is zero, otherwise 0.
C1_ExitAggregatesAllSources ==
    Done =>
        result.exit = IF AnySourceError(result.audit) THEN 1
                      ELSE IF CountAllRules(result.audit) = 0 THEN 2
                      ELSE 0

\* the URLs the model annotation lists, as audit_bpa_rules receives them
ListedUrls == parse_model_annotations(env).external_urls

\* a fetch of the URL fails: HTTP error, network error, timeout, invalid JSON, or
\* a body that is no array
FetchFails(url) ==
    NetReply(url).kind \in {"http_error", "url_error", "timeout", "invalid_json", "dict"}

\* C2: with URL fetching enabled the audit result holds exactly one URL source per
\* listed URL, in list order; a URL whose fetch fails yields a source with its
\* error set and no rules, and the URLs after it are still fetched.
C2_OneSourcePerUrl ==
    Done =>
        LET sources == result.audit.url_rules
        IN  /\ Len(sources) = Len(ListedUrls)
            /\ \A i \in 1..Len(ListedUrls) :
                  /\ sources[i].location = <<"URL", ListedUrls[i]>>
                  /\ FetchFails(ListedUrls[i]) =>
                        sources[i].error.has /\ sources[i].rules = <<>>
                  /\ ListedUrls[i] = "https://ok/two.json" =>
                        ~sources[i].error.has /\ Len(sources[i].rules) = 2

\* C2 happens: a failed fetch is followed by a fetch that brought rules
C2_Witness ==
    /\ Done
    /\ Len(result.audit.url_rules) = 2
    /\ result.audit.url_rules[1].error.has
    /\ result.audit.url_rules[1].rules = <<>>
    /\ Len(result.audit.url_rules[2].rules) = 2

\* C3: validate_rules.py invoked with --stdin reads the rules array from standard
\* input and validates it: the run reaches validation and its exit code reflects
\* the validation outcome.
C3_StdinIsValidated ==
    (Done /\ env.tool = "validate_rules" /\ InSeq(FLAG_STDIN, env.argv)
          /\ positional_args(env.argv) = <<>> /\ env.content.kind = "list")
        => /\ result.validated
           /\ (result.exit = 0) <=> (result.errors = <<>> /\ ~result.crashed)

\* the type the documentation gives a configuration file name
OwnType(filename) ==
    CASE filename = F_Preferences -> T_preferences
      [] filename \in {F_UiPreferences, F_uipreferences} -> T_uipreferences
      [] filename \in {F_Layouts, F_LAYOUTS} -> T_layouts
      [] filename = F_RecentFiles -> T_recentfiles
      [] filename = F_RecentServers -> T_recentservers
      [] filename \in {F_ModelTmuo, F_UpperTmuo} -> T_tmuo

\* C4: detect_config_type maps each supported configuration file name to its own
\* type, case-insensitively, so that a file given without --type is validated
\* against the schema of its own type.
C4_EachFileItsOwnType ==
    (Done /\ env.tool = "validate_config" /\ result.validated
          /\ Len(env.argv) = 1 /\ env.argv[1] \in ConfigFileNames \ {F_Notes})
        => result.config_type = OwnType(env.argv[1])

\* C5: in every validation tool a run that prints a message tagged [ERROR] exits
\* with a non-zero code.
C5_ErrorMeansNonZeroExit ==
    (Done /\ PrintedTag("ERROR")) => result.exit # 0

\* a rule that lacks a required field
LacksRequired(rule) == \E f \in 1..Len(REQUIRED_FIELDS) : REQUIRED_FIELDS[f] \notin DOMAIN rule

\* C6: for every rules array in which some record lacks a required field,
\* validate_rules_file returns at least one error and the tool exits 1, whether the
\* schema file is present or not and jsonschema installed or not.
C6_MissingRequiredFieldFails ==
    (RulesReturned
     /\ \E k \in 1..Len(ValidatedRules) : LacksRequired(ValidatedRules[k].fields))
        => result.errors # <<>> /\ result.exit = 1

\* C7: for a 2-element rules collection whose two records have the same ID,
\* validate_rules_file returns exactly one duplicate-ID error, whatever the ID is;
\* with all IDs distinct it returns none.
C7_OneDuplicateError ==
    (RulesReturned /\ ~SchemaOnlyTaken /\ Len(ValidatedRules) = 2
     /\ "ID" \in DOMAIN ValidatedRules[1].fields /\ "ID" \in DOMAIN ValidatedRules[2].fields)
        => CountKind(result.errors, "duplicate")
             = IF ValidatedRules[1].fields["ID"] = ValidatedRules[2].fields["ID"] THEN 1 ELSE 0

\* the FixExpression of the rule is a string that contains Delete()
HasDeletionFix(rule) ==
    /\ "FixExpression" \in DOMAIN rule
    /\ ~rule["FixExpression"].null
    /\ Contains(rule["FixExpression"].text, DELETE_CALL)

\* the Severity of the rule is below 3, or absent
LowSeverity(rule) == "Severity" \notin DOMAIN rule \/ rule["Severity"] < 3

\* the returned errors hold a destructive-fix error for element k (1-based)
DestructiveReported(k) ==
    \E i \in 1..Len(result.errors) :
        result.errors[i].kind = "destructive" /\ result.errors[i].idx = k - 1

HasHardFinding(rule) ==
    \/ (DOMAIN rule) \ ALLOWED_FIELDS # {}
    \/ (HasDeletionFix(rule) /\ LowSeverity(rule))

\* no ID is met twice among the rules
DistinctIds(rules) ==
    \A i, j \in 1..Len(rules) :
        (i # j /\ "ID" \in DOMAIN rules[i].fields /\ "ID" \in DOMAIN rules[j].fields)
            => rules[i].fields["ID"] # rules[j].fields["ID"]

\* the macro has a finding that is no matter of style: an Execute that is missing
\* or blank
MacroHasHardFinding(macro) == "Execute" \notin DOMAIN macro \/ IsBlank(macro["Execute"])

\* no Id other than -1 is met twice among the macros
DistinctMacroIds(actions) ==
    \A i, j \in 1..Len(actions) :
        (i # j /\ "Id" \in DOMAIN actions[i].fields /\ "Id" \in DOMAIN actions[j].fields
         /\ actions[i].fields["Id"] = actions[j].fields["Id"])
            => actions[i].fields["Id"] = -1

\* C9: stylistic findings never fail validation: a rules file, or a macros file,
\* on which the schema validator reports nothing and whose only other findings
\* are stylistic returns an empty error list and exits 0.
C9_StylisticNeverFails ==
    /\ (RulesReturned
        /\ CountKind(result.errors, "schema") = 0
        /\ (\A k \in 1..Len(ValidatedRules) : ~HasHardFinding(ValidatedRules[k].fields))
        /\ DistinctIds(ValidatedRules))
          => result.errors = <<>> /\ result.exit = 0
    /\ (Done /\ env.tool = "validate_macros" /\ result.validated
        /\ env.data.kind = "actions"
        /\ (env.schema = "ok" /\ env.hasJsonschema => env.violations = 0)
        /\ (\A k \in 1..Len(env.data.actions) :
               /\ env.data.actions[k].kind = "dict"
               /\ ~MacroHasHardFinding(env.data.actions[k].fields))
        /\ DistinctMacroIds(env.data.actions))
          => result.errors = <<>> /\ result.exit = 0

\* C9 happens: a rules file whose rule has a non-standard prefix, a non-standard
\* category and a string comparison prints the three warnings and exits 0
C9_Witness ==
    /\ RulesReturned /\ ~SchemaOnlyTaken
    /\ Len(ValidatedRules) >= 1
    /\ \E i \in 1..Len(result.printed) : result.printed[i].msg = "Non-standard category"
    /\ \E i \in 1..Len(result.printed) :
          result.printed[i].msg = "String comparison may be case-sensitive"
    /\ \E i \in 1..Len(result.printed) : result.printed[i].msg = "ID doesn't use standard prefix"
    /\ result.errors = <<>>
    /\ result.exit = 0

\* the kinds of error of the TE-compatibility check and of the per-record checks
TeKinds == {"te_comment", "te_runtime", "te_unknown"}
RecordKinds == {"destructive", "duplicate", "not_object"}

\* C10 as stated: with a schema supplied, every schema-level error precedes every
\* error of a non-schema check (TE-compatibility, destructive-fix, duplicate-ID,
\* non-object element), and the per-record non-schema errors are in ascending
\* record index order.
C10_SchemaErrorsFirst ==
    (RulesReturned /\ env.schema = "ok")
        => \A i, j \in 1..Len(result.errors) :
              /\ (result.errors[i].kind = "schema" /\ result.errors[j].kind # "schema") => i < j
              /\ (i < j /\ result.errors[i].kind \in RecordKinds
                  /\ result.errors[j].kind \in RecordKinds)
                    => result.errors[i].idx <= result.errors[j].idx

\* C10 amended: with a schema supplied, the returned list holds the
\* TE-compatibility errors first, then the schema-level errors, then the errors of
\* the per-record checks (destructive-fix, duplicate-ID); the TE-compatibility
\* errors and the per-record errors are each in ascending record index order.
C10_TeThenSchemaThenRecords ==
    (RulesReturned /\ env.schema = "ok")
        => \A i, j \in 1..Len(result.errors) :
              /\ (result.errors[i].kind \in TeKinds /\ result.errors[j].kind \notin TeKinds)
                    => i < j
              /\ (result.errors[i].kind = "schema" /\ result.errors[j].kind \in RecordKinds)
                    => i < j
              /\ (i < j /\ result.errors[i].kind \in RecordKinds
                  /\ result.errors[j].kind \in RecordKinds)
                    => result.errors[i].idx <= result.errors[j].idx
              /\ (i < j /\ result.errors[i].kind \in TeKinds
                  /\ result.errors[j].kind \in TeKinds)
                    => result.errors[i].idx <= result.errors[j].idx

\* C10 happens: a returned list with a TE-compatibility error, a schema-level
\* error and a destructive-fix error
C10_Witness ==
    /\ RulesReturned /\ env.schema = "ok"
    /\ \E i \in 1..Len(result.errors) : result.errors[i].kind \in TeKinds
    /\ CountKind(result.errors, "schema") >= 1
    /\ CountKind(result.errors, "destructive") >= 1

\* the kinds of error of the checks that are no JSON Schema validation
ExtraKinds ==
    TeKinds \cup {"destructive", "duplicate", "empty_execute", "duplicate_id",
                  "UseWorkspace", "ProxyType"}

\* C11: when schema_only is true a validator runs only JSON Schema validation: the
\* returned error list holds no TE-compatibility, destructive-fix, duplicate-ID,
\* empty-Execute, UseWorkspace or ProxyType error, whether or not a schema
\* document could be loaded.
C11_SchemaOnlyOnlySchema ==
    (Done /\ env.tool \in {"validate_rules", "validate_macros", "validate_tmuo",
                           "validate_config"}
     /\ result.validated /\ ~result.crashed /\ InSeq(FLAG_SCHEMA_ONLY, env.argv))
        => \A i \in 1..Len(result.errors) : result.errors[i].kind \notin ExtraKinds

(***************************************************************************)
(* The annotation shapes, stated on the lines themselves.                  *)
(***************************************************************************)
AllSpace(s) == \A n \in 1..Len(s) : IsSpace(s[n])

\* the white space in front of a line
IndentOf(line) == CHOOSE i \in 0..Len(line) :
    AllSpace(SubSeq(line, 1, i)) /\ (i = Len(line) \/ ~IsSpace(line[i + 1]))

\* after "annotation" at position p come j >= 1 white-space characters and the key
KeyAfter(line, key, p, j) ==
    /\ p + j + Len(key) <= Len(line)
    /\ AllSpace(SubSeq(line, p + 1, p + j))
    /\ SubSeq(line, p + j + 1, p + j + Len(key)) = key

\* after the key's end at position q come k white-space characters and "="
EqualsAfter(line, q, k) ==
    /\ q + k + 1 <= Len(line)
    /\ AllSpace(SubSeq(line, q + 1, q + k))
    /\ line[q + k + 1] = "="

\* the line reads: white space, "annotation", white space (one character at
\* least), the key, white space, "="
Declares(line, key) ==
    LET p == IndentOf(line) + Len(ANNOTATION)
    IN  /\ p <= Len(line)
        /\ SubSeq(line, IndentOf(line) + 1, p) = ANNOTATION
        /\ \E j \in 1..Len(line) :
              /\ KeyAfter(line, key, p, j)
              /\ \E k \in 0..Len(line) : EqualsAfter(line, p + j + Len(key), k)

\* what follows the "=" of a declaring line, without its surrounding white space
Remainder(line, key) ==
    LET p == IndentOf(line) + Len(ANNOTATION)
        j == CHOOSE j \in 1..Len(line) : KeyAfter(line, key, p, j)
        q == p + j + Len(key)
        k == CHOOSE k \in 0..Len(line) : EqualsAfter(line, q, k)
    IN  Strip(From(line, q + k + 2))

DeclaresKey == \E n \in 1..Len(env.lines) : Declares(env.lines[n], env.annotation_name)

\* the first line declaring the requested key
FirstDeclaring ==
    CHOOSE n \in 1..Len(env.lines) :
        /\ Declares(env.lines[n], env.annotation_name)
        /\ \A m \in 1..(n - 1) : ~Declares(env.lines[m], env.annotation_name)

FirstRemainder == Remainder(env.lines[FirstDeclaring], env.annotation_name)

SingleLineShape ==
    /\ DeclaresKey
    /\ FirstRemainder # <<>>
    /\ ~StartsWith(FirstRemainder, FENCE)
    /\ FirstRemainder[1] \notin {"[", "{"}

\* r with one layer of matching surrounding quotes removed, r when it is not quoted
Unquoted(r) ==
    IF Len(r) >= 2 /\ r[1] = r[Len(r)] /\ r[1] \in {"'", "\""}
    THEN SubSeq(r, 2, Len(r) - 1)
    ELSE r

\* C12: when the first line declaring the key has a non-blank remainder that begins
\* with neither a fence, "[" nor "{", extract_annotation_value returns that
\* remainder with one layer of matching surrounding quotes removed, and unchanged
\* when it is not quoted, whatever lines follow.
C12_SingleLineValue ==
    (Done /\ SingleLineShape) => result = Present(Unquoted(FirstRemainder))

\* the single-line values extract_annotation_value gets right: every remainder but
\* the one that is a lone quote character
C12_SingleLineValueButLoneQuote ==
    (Done /\ SingleLineShape /\ FirstRemainder \notin {<<"'">>, <<"\"">>})
        => result = Present(Unquoted(FirstRemainder))

FencedShape == DeclaresKey /\ StartsWith(FirstRemainder, FENCE)

\* the text after the opening fence: the rest of the declaring line and every
\* later line, as they stand
AfterOpeningFence ==
    JoinLines(<<From(FirstRemainder, Len(FENCE) + 1)>>
              \o SubSeq(env.lines, FirstDeclaring + 1, Len(env.lines)))

\* the text between the opening fence and the closing fence, trimmed
BetweenFences ==
    Strip(SubSeq(AfterOpeningFence, 1, Index(AfterOpeningFence, FENCE) - 1))

\* C13: when the remainder of the declaring line begins with a triple-backtick
\* fence and a closing fence follows, extract_annotation_value returns exactly the
\* text between the two fences, trimmed of surrounding white space; the text after
\* the closing fence and the later lines are not in the result.
C13_FencedValue ==
    (Done /\ FencedShape /\ Contains(AfterOpeningFence, FENCE))
        => result = Present(BetweenFences)

\* the fenced values extract_annotation_value gets right: those whose closing fence
\* is not on the declaring line
C13_FencedValueClosedLater ==
    (Done /\ FencedShape /\ Contains(AfterOpeningFence, FENCE)
     /\ ~Contains(From(FirstRemainder, Len(FENCE) + 1), FENCE))
        => result = Present(BetweenFences)

BlockShape ==
    DeclaresKey /\ (FirstRemainder = <<>> \/ FirstRemainder[1] \in {"[", "{"})

BaseIndent == IndentOf(env.lines[FirstDeclaring])

NonBlank(line) == ~AllSpace(line)

\* line n is after the declaring line, non-blank and indented no deeper than it
Stops(n) ==
    /\ n > FirstDeclaring
    /\ NonBlank(env.lines[n])
    /\ IndentOf(env.lines[n]) <= BaseIndent

\* the first line that stops the block, or the line after the last one
StoppingLine ==
    IF \E n \in 1..Len(env.lines) : Stops(n)
    THEN CHOOSE n \in 1..Len(env.lines) : Stops(n) /\ \A m \in 1..(n - 1) : ~Stops(m)
    ELSE Len(env.lines) + 1

\* the non-blank lines between the declaring line and the stopping line
BlockLines ==
    SelectSeq(SubSeq(env.lines, FirstDeclaring + 1, StoppingLine - 1), NonBlank)

\* the value of the block: the start of the JSON value on the declaring line, if
\* any, and the lines of the block without their indentation
BlockValueLines ==
    (IF FirstRemainder = <<>> THEN <<>> ELSE <<FirstRemainder>>)
    \o [n \in 1..Len(BlockLines) |-> LStrip(BlockLines[n])]

BlockValue ==
    IF BlockValueLines = <<>> THEN Absent ELSE Present(JoinLines(BlockValueLines))

\* C14: when the remainder of the declaring line is empty or starts a JSON array or
\* object, the value is made of the following lines indented deeper than the
\* declaring line: blank lines are skipped, the first non-blank line indented no
\* deeper than the declaring line stops the block, and no line at or after the
\* stopping line is in the result.
C14_IndentedBlockValue ==
    (Done /\ BlockShape) => result = BlockValue

\* the blocks extract_annotation_value gets right: those in which no line up to the
\* stopping line declares the key again
C14_IndentedBlockValueDeclaredOnce ==
    (Done /\ BlockShape
     /\ \A n \in (FirstDeclaring + 1)..Len(env.lines) :
            n <= StoppingLine => ~Declares(env.lines[n], env.annotation_name))
        => result = BlockValue

\* C15: when no line of the content declares the requested key, and so when the
\* content only declares keys that have the requested key as a proper prefix,
\* extract_annotation_value returns None.
C15_UndeclaredKeyGivesNone ==
    (Done /\ ~DeclaresKey) => result = Absent

\* a content that declares a longer key only, the shorter one being requested
C15_Witness ==
    /\ Done
    /\ env.annotation_name = KEY
    /\ ~DeclaresKey
    /\ \E n \in 1..Len(env.lines) : Declares(env.lines[n], KEY_LONGER)
    /\ result = Absent

(***************************************************************************)
(* The macros document after add_macro and create_macros_json.             *)
(***************************************************************************)
\* the macros of a file, none when there is no file
ActionsOf(file) == IF file.exists THEN file.Actions ELSE <<>>

\* the Actions array has length n and its Ids are 1, 2, ..., n in array order
IdsOneTo(file, n) ==
    /\ file.exists /\ file.json = "object" /\ "Actions" \in file.keys
    /\ Len(file.Actions) = n
    /\ \A i \in 1..n : "Id" \in DOMAIN file.Actions[i] /\ file.Actions[i].Id = i

\* the first file does not exist or holds an empty Actions array
StartsEmpty ==
    \/ ~env.file.exists
    \/ env.file.json = "object" /\ "Actions" \in env.file.keys /\ env.file.Actions = <<>>

\* C16: N >= 1 successive add_macro calls from a macros file that does not exist
\* or holds an empty Actions array, and one create_macros_json call with N script
\* files, leave a file whose Actions array has length N and Ids 1, 2, ..., N in
\* array order.
C16_IdsOneToN ==
    /\ (StartsEmpty /\ result.added >= 1) => IdsOneTo(result.file, result.added)
    /\ (result.op = "create_macros_json" /\ result.outcome = "ok")
           => IdsOneTo(result.file, Len(result.scripts))

\* two add_macro calls or more from an empty collection
C16_Witness ==
    /\ StartsEmpty
    /\ result.added >= 2
    /\ IdsOneTo(result.file, result.added)

AddedOk == result.op = "add_macro" /\ result.outcome = "ok"

\* the Ids of the collection add_macro found, a macro without Id counting as 0
FoundIds == {Get(ActionsOf(result.before)[i], "Id", 0) : i \in 1..Len(ActionsOf(result.before))}

\* the Id of the macro add_macro appended
AddedId == result.file.Actions[Len(result.file.Actions)].Id

\* C17: add_macro gives the new macro the Id max+1 over the Ids of the collection
\* (a macro without Id counts as 0, an empty collection gives 1): the new Id is
\* greater than every existing Id and is the Id of no existing macro.
C17_NextIdIsMaxPlusOne ==
    AddedOk =>
        /\ Len(result.file.Actions) = Len(ActionsOf(result.before)) + 1
        /\ FoundIds = {} => AddedId = 1
        /\ FoundIds # {} => (AddedId - 1 \in FoundIds /\ \A x \in FoundIds : x < AddedId)
        /\ \A i \in 1..Len(ActionsOf(result.before)) :
              "Id" \in DOMAIN result.before.Actions[i]
                  => result.before.Actions[i].Id # AddedId

\* a macro added to a collection holding the Id 2 and a smaller Id or a macro
\* without Id
C17_Witness ==
    /\ AddedOk
    /\ Len(ActionsOf(result.before)) >= 2
    /\ 2 \in FoundIds
    /\ AddedId = 3

\* the failures of add_macro and create_macros_json raised for a missing script and
\* for a macros file that is not valid JSON
FailedCall ==
    \/ result.op = "add_macro" /\ result.outcome \in {"FileNotFoundError", "JSONDecodeError"}
    \/ result.op = "create_macros_json" /\ result.outcome = "FileNotFoundError"

\* C18: when add_macro fails for a missing script file or a macros file that is not
\* valid JSON, or create_macros_json fails for a missing script file, the target
\* file is left as it was before the call.
C18_FailureLeavesFile ==
    FailedCall => result.file = result.before

\* create_macros_json failing at its second script over an existing document
C18_Witness ==
    /\ result.op = "create_macros_json"
    /\ result.outcome = "FileNotFoundError"
    /\ Len(result.scripts) >= 2
    /\ result.scripts[1].exists
    /\ result.before.exists
    /\ result.before.Actions # <<>>
    /\ result.file = result.before

(***************************************************************************)
(* The errors of the sources.                                              *)
(***************************************************************************)
\* the model file was read and some annotation it declares holds a text that is
\* no JSON
DeclaresInvalidJson ==
    /\ env.model.kind \in {"bim", "tmdl", "dir_model", "dir_definition"}
    /\ env.model.kind = "bim" => env.model.jsonOk
    /\ \E i \in 1..Len(Annotations(env.model)) :
          Annotations(env.model)[i].text.kind = "invalid"

\* the model path is missing, a directory without model.tmdl, or a .bim file that is
\* no JSON
ModelUnreadable ==
    \/ env.model.kind \in {"missing", "dir_empty"}
    \/ env.model.kind = "bim" /\ ~env.model.jsonOk

\* the file holds an array of objects, some of them without optional fields
DecodableFile(f) == f.state = "list" /\ AllObjects(f.items)

\* what the claim says of the sources read by parse_file_rules
FileSourceAsClaimed(f, source) ==
    /\ f.state \in {"missing", "invalid"} => source.error.has
    /\ DecodableFile(f) => (~source.error.has /\ count(source) = Len(f.items))

\* C19: the source parsers return a source for every input: for a missing file or
\* directory entry, and for a file whose JSON or embedded annotation JSON cannot be
\* parsed, the source has its error set; records lacking optional fields are
\* decoded with defaults and give no error.
C19_UnparseableSetsError ==
    (Done /\ env.tool = "bpa_rules_audit") =>
        /\ env.dirsFound => /\ FileSourceAsClaimed(env.userFile, result.audit.user_rules)
                            /\ FileSourceAsClaimed(env.machineFile, result.audit.machine_rules)
        /\ ModelUnreadable => result.audit.model_rules.error.has
        /\ DeclaresInvalidJson => result.audit.model_rules.error.has

\* a TMDL model whose list annotations (external rule files, ignored rules) hold a
\* text that is no JSON, its BestPracticeAnalyzer annotation being fine
TmdlListsInvalidOnly ==
    /\ env.model.kind \in {"tmdl", "dir_model", "dir_definition"}
    /\ ~(env.model.bpa.has /\ env.model.bpa.v.kind = "invalid")

\* the errors the parsers do set: every case of the claim but the TMDL list
\* annotations
C19_UnparseableSetsErrorButTmdlLists ==
    (Done /\ env.tool = "bpa_rules_audit") =>
        /\ env.dirsFound => /\ FileSourceAsClaimed(env.userFile, result.audit.user_rules)
                            /\ FileSourceAsClaimed(env.machineFile, result.audit.machine_rules)
        /\ ModelUnreadable => result.audit.model_rules.error.has
        /\ (DeclaresInvalidJson /\ ~TmdlListsInvalidOnly) => result.audit.model_rules.error.has

\* no Windows per-user or per-machine directory was found and the model path names
\* nothing
NoSourceLocated == ~env.dirsFound /\ env.model.kind = "missing"

\* C20: when no source can be located (no Windows directory found, model path
\* absent), audit_bpa_rules returns an audit result in which every source has zero
\* rules, and the process exits with a non-zero code.
C20_NoSourceExitsNonZero ==
    (Done /\ env.tool = "bpa_rules_audit" /\ NoSourceLocated) =>
        /\ result.exit # 0
        /\ count(result.audit.builtin_rules) = 0
        /\ count(result.audit.model_rules) = 0
        /\ count(result.audit.user_rules) = 0
        /\ count(result.audit.machine_rules) = 0
        /\ \A i \in 1..Len(result.audit.url_rules) : count(result.audit.url_rules[i]) = 0

\* an audit without any located source, every source holding an error
C20_Witness ==
    /\ Done
    /\ env.tool = "bpa_rules_audit"
    /\ NoSourceLocated
    /\ result.exit = 1
    /\ total_rules(result.audit) = 0
    /\ result.audit.builtin_rules.error.has
    /\ result.audit.model_rules.error.has
    /\ result.audit.user_rules.error.has
    /\ result.audit.machine_rules.error.has

(***************************************************************************)
(* The audit result: counts, ignore status, built-in source.               *)
(***************************************************************************)
Audited == Done /\ env.tool = "bpa_rules_audit"

\* the sources of the audit result: built-in, model, user, machine, then the URLs
AuditSources ==
    <<result.audit.builtin_rules, result.audit.model_rules, result.audit.user_rules,
      result.audit.machine_rules>> \o result.audit.url_rules

\* the rules of the sources s[1..n], one list
RECURSIVE RulesUpTo(_, _)
RulesUpTo(s, n) == IF n = 0 THEN <<>> ELSE RulesUpTo(s, n - 1) \o s[n].rules

\* the rules of every source of the audit result
AllAuditRules == RulesUpTo(AuditSources, Len(AuditSources))

\* the number of rules of a list that are disabled or ignored
NotActive(rules) ==
    Cardinality({i \in 1..Len(rules) : ~rules[i].is_enabled \/ rules[i].is_ignored})

\* C21: the derived counts agree with the rule lists: each source's active_count is
\* the number of its rules that are enabled and not ignored, its active_count plus
\* its ignored_count is at most its count, total_rules is the sum of count over
\* every source, and total_active_rules plus total_ignored is at most total_rules.
C21_CountsConsistent ==
    Audited =>
        /\ \A n \in 1..Len(AuditSources) :
              /\ active_count(AuditSources[n])
                     = Len(AuditSources[n].rules) - NotActive(AuditSources[n].rules)
              /\ active_count(AuditSources[n]) + ignored_count(AuditSources[n])
                     <= count(AuditSources[n])
        /\ total_rules(result.audit) = Len(AllAuditRules)
        /\ total_active_rules(result.audit) = Len(AllAuditRules) - NotActive(AllAuditRules)
        /\ total_active_rules(result.audit) + total_ignored(result.audit)
               <= total_rules(result.audit)

\* an audit with an ignored rule, an active rule and rules fetched from a URL
C21_Witness ==
    /\ Audited
    /\ total_ignored(result.audit) >= 1
    /\ total_active_rules(result.audit) >= 1
    /\ SumCount(result.audit.url_rules) >= 1
    /\ total_active_rules(result.audit) + total_ignored(result.audit)
           <= total_rules(result.audit)

\* the sources in the exported document, in the order of AuditSources
ExportedSources ==
    LET s == result.exported.v.sources
    IN  <<s.builtin, s.model, s.user, s.machine>> \o s.url

\* the exported rule d holds the fields of rule r
RuleExported(r, d) ==
    /\ d.ID = r.id
    /\ d.Name = r.name
    /\ d.Severity = r.severity
    /\ d.Scope = r.scope
    /\ d.Expression = r.expression
    /\ d.FixExpression = r.fix_expression
    /\ d.Category = r.category
    /\ d.CompatibilityLevel = r.compatibility_level

\* the exported source d holds the location, the error, the total, ignored and
\* active counts and the rules of source s
SourceExported(s, d) ==
    /\ d.location = s.location
    /\ d.error = s.error
    /\ d.count = Len(s.rules)
    /\ d.ignored_count = Cardinality({i \in 1..Len(s.rules) : s.rules[i].is_ignored})
    /\ d.active_count = Len(s.rules) - NotActive(s.rules)
    /\ Len(d.rules) = Len(s.rules)
    /\ \A i \in 1..Len(s.rules) : RuleExported(s.rules[i], d.rules[i])

\* the exported source d holds the enabled count of source s
EnabledCountExported(s, d) ==
    /\ "enabled_count" \in DOMAIN d
    /\ d["enabled_count"] = Cardinality({i \in 1..Len(s.rules) : s.rules[i].is_enabled})

Exported == Audited /\ result.exported.has

\* C22: the JSON export of an audit result holds, for every source, the location,
\* the error string and each derived count (total, enabled, ignored, active), and
\* for every rule the identifier, display name, severity, scope, expression, fix
\* expression, category and minimum compatibility level of the audit result.
C22_ExportHoldsAllFields ==
    Exported =>
        /\ Len(ExportedSources) = Len(AuditSources)
        /\ \A n \in 1..Len(AuditSources) :
              /\ SourceExported(AuditSources[n], ExportedSources[n])
              /\ EnabledCountExported(AuditSources[n], ExportedSources[n])

\* what the export does hold: every field of the claim but the enabled count
C22_ExportHoldsAllButEnabledCount ==
    Exported =>
        /\ Len(ExportedSources) = Len(AuditSources)
        /\ \A n \in 1..Len(AuditSources) :
              SourceExported(AuditSources[n], ExportedSources[n])

(***************************************************************************)
(* Line endings after fix_line_endings.                                    *)
(***************************************************************************)
\* every LF byte is preceded by a CR byte
EveryLfAfterCr(bytes) ==
    \A i \in 1..Len(bytes) : bytes[i] = "LF" => (i > 1 /\ bytes[i - 1] = "CR")

Fixed == env.tool = "fix_line_endings" /\ result.calls >= 1

\* C23: after fix_line_endings returns, for any prior content, every LF byte of the
\* file is preceded by a CR byte and check_line_endings reports CRLF; it returns
\* True exactly when the bytes of the file were changed; a second application
\* leaves the file unchanged.
C23_FixGivesCrlf ==
    Fixed =>
        /\ EveryLfAfterCr(result.bytes)
        /\ check_line_endings(result.bytes)
        /\ result.returned <=> (result.bytes # result.before)
        /\ result.calls = 2 => result.bytes = result.before

\* what fix_line_endings does give: check_line_endings reports CRLF afterwards and
\* a second application leaves the file unchanged; on a file that had a bare LF and
\* no CR LF pair every LF ends up after a CR and True is returned with the bytes
\* changed
C23_FixGivesCrlfOnLfOnlyFiles ==
    Fixed =>
        /\ check_line_endings(result.bytes)
        /\ result.calls = 2 => result.bytes = result.before
        /\ (result.calls = 1 /\ InSeq("LF", env.bytes) /\ ~Contains(env.bytes, CRLF))
               => /\ EveryLfAfterCr(result.bytes)
                  /\ result.returned
                  /\ result.bytes # result.before

\* the rule ID is one of the ignored rule IDs of the audit result
IsIgnoredId(id) ==
    \E k \in 1..Len(result.audit.ignored_rule_ids) : result.audit.ignored_rule_ids[k] = id

\* the sources as the parsers return them, before the ignore list is applied, in
\* the order of AuditSources
SourcesAsParsed ==
    <<get_builtin_rules(result.audit.builtin_config),
      parse_model_annotations(env).source,
      IF env.dirsFound THEN parse_file_rules(env.userFile, "User-level (LocalAppData)")
      ELSE RuleSource("User-level (LocalAppData)", Absent, <<>>,
                      Present("Could not locate Windows LocalAppData directory")),
      IF env.dirsFound THEN parse_file_rules(env.machineFile, "Machine-level (ProgramData)")
      ELSE RuleSource("Machine-level (ProgramData)", Absent, <<>>,
                      Present("Could not locate Windows ProgramData directory"))>>
    \o fetch_all(parse_model_annotations(env).external_urls)

\* source s is source p with nothing changed but the is_ignored of its rules
OnlyIgnoreChanged(p, s) ==
    /\ s.location = p.location
    /\ s.path = p.path
    /\ s.error = p.error
    /\ Len(s.rules) = Len(p.rules)
    /\ \A i \in 1..Len(p.rules) : [s.rules[i] EXCEPT !.is_ignored = FALSE] = p.rules[i]

\* C24: after audit_bpa_rules, for every rule of every source (built-in, model,
\* user, machine and every URL source), is_ignored is true if and only if the
\* rule's ID is in the ignored-rule-ID list read from the model; applying the list
\* changes no other field of any rule and removes no rule from a source.
C24_IgnoredIffListed ==
    Audited =>
        /\ Len(AuditSources) = Len(SourcesAsParsed)
        /\ \A n \in 1..Len(AuditSources) :
              /\ OnlyIgnoreChanged(SourcesAsParsed[n], AuditSources[n])
              /\ \A i \in 1..Len(AuditSources[n].rules) :
                    AuditSources[n].rules[i].is_ignored
                        <=> IsIgnoredId(AuditSources[n].rules[i].id)

\* an audit with an ignored rule, and a disabled built-in rule that is not ignored
C24_Witness ==
    /\ Audited
    /\ \E i \in 1..Len(AllAuditRules) :
          AllAuditRules[i].is_ignored /\ IsIgnoredId(AllAuditRules[i].id)
    /\ \E i \in 1..Len(AllAuditRules) :
          /\ AllAuditRules[i].is_builtin
          /\ ~AllAuditRules[i].is_enabled
          /\ ~AllAuditRules[i].is_ignored

BuiltIn == result.audit.builtin_rules

\* the ID is one of the disabled IDs of the built-in configuration
IsDisabledId(id) ==
    \E k \in 1..Len(result.audit.builtin_config.disabled_ids) :
        result.audit.builtin_config.disabled_ids[k] = id

\* the error of the built-in source is set, for the status Disable or for
\* preferences that could not be read, and the source holds no rule
BuiltInUnavailable ==
    /\ BuiltIn.error.has
    /\ result.audit.builtin_config.status = "Disable" \/ result.audit.builtin_config.error.has
    /\ BuiltIn.rules = <<>>

\* the error is unset and the source holds one rule per entry of the catalog, each
\* built-in, and enabled if and only if its ID is not disabled
BuiltInComplete ==
    /\ ~BuiltIn.error.has
    /\ result.audit.builtin_config.status # "Disable"
    /\ ~result.audit.builtin_config.error.has
    /\ Len(BuiltIn.rules) = Len(BUILTIN_RULES)
    /\ \A i \in 1..Len(BUILTIN_RULES) :
          /\ BuiltIn.rules[i].id = BUILTIN_RULES[i].id
          /\ BuiltIn.rules[i].is_builtin
          /\ BuiltIn.rules[i].is_enabled <=> ~IsDisabledId(BuiltIn.rules[i].id)

\* C25: the built-in source is in one of two states: its error is set (status
\* Disable, or the preferences could not be read) and it holds no rule, or its
\* error is unset and it holds exactly one rule per entry of the built-in catalog,
\* each with is_builtin true and is_enabled true if and only if its ID is not in
\* the disabled-ID list.
C25_BuiltInAllOrNothing ==
    Audited => (BuiltInUnavailable \/ BuiltInComplete)

\* a complete built-in source with a disabled rule and an enabled rule
C25_Witness ==
    /\ Audited
    /\ BuiltInComplete
    /\ \E i \in 1..Len(BuiltIn.rules) : ~BuiltIn.rules[i].is_enabled
    /\ \E i \in 1..Len(BuiltIn.rules) : BuiltIn.rules[i].is_enabled

(***************************************************************************)
(* Later declarations of the key.                                          *)
(***************************************************************************)
NotDeclaring(line) == ~Declares(line, env.annotation_name)

\* the content without the lines that declare the key after its first declaration
WithoutLaterDeclarations ==
    SubSeq(env.lines, 1, FirstDeclaring)
    \o SelectSeq(SubSeq(env.lines, FirstDeclaring + 1, Len(env.lines)), NotDeclaring)

\* C26: the value returned by extract_annotation_value is determined by the first
\* line that declares the key: the lines that declare the key again, at any
\* indentation and in any shape, replace nothing and contribute nothing, so the
\* value is the one of the content without them.
C26_FirstDeclarationDecides ==
    (Done /\ DeclaresKey) =>
        result = extract_annotation_value(WithoutLaterDeclarations, env.annotation_name)

\* the later declarations that change nothing: those after a single-line value, and
\* those after the line that stops an indented block
C26_FirstDeclarationDecidesOutsideValue ==
    (Done /\ DeclaresKey
     /\ \/ SingleLineShape
        \/ BlockShape /\ \A n \in (FirstDeclaring + 1)..Len(env.lines) :
                            n <= StoppingLine => NotDeclaring(env.lines[n]))
        => result = extract_annotation_value(WithoutLaterDeclarations, env.annotation_name)

(***************************************************************************)
(* The model-embedded source of a model that was not identified.           *)
(***************************************************************************)
ModelSourceAccounted ==
    result.audit.model_rules.path.has \/ result.audit.model_rules.error.has

\* C27: for every model path, the model-embedded source has its path set (a model
\* file was identified and read) or its error set: a missing path, a directory
\* without model.tmdl and a file that is neither .bim nor .tmdl are never
\* reported as an error-free source with zero rules.
C27_ModelPathOrError == Audited => ModelSourceAccounted

\* every model path but a file with another extension gives a path or an error
C27_ModelPathOrErrorButOtherFile ==
    (Audited /\ env.model.kind # "other_file") => ModelSourceAccounted

(***************************************************************************)
(* What a successful add_macro leaves of the existing document.            *)
(***************************************************************************)
\* the macros found are the first macros of the file, each with its fields
FoundEntriesKept ==
    /\ Len(result.file.Actions) = Len(ActionsOf(result.before)) + 1
    /\ \A i \in 1..Len(ActionsOf(result.before)) :
          result.file.Actions[i] = result.before.Actions[i]

\* every top-level key of the document found is a key of the document written
FoundKeysKept == result.before.exists => result.before.keys \subseteq result.file.keys

\* C28: a successful add_macro changes nothing in the macros document other than
\* appending one entry at the end of Actions: every entry found keeps its fields
\* and its position, and every other top-level key of the document found is
\* still in the document after the call.
C28_OnlyAppends == AddedOk => (FoundEntriesKept /\ FoundKeysKept)

\* the entries found keep their fields and positions, one entry being appended
C28_AppendsToEntries == AddedOk => FoundEntriesKept

=============================================================================
